---- MODULE Spec2Model ----
(***************************************************************************)
(* Model of the thumbnailer package (pkg/thumbnailer/thumbnailer.go).      *)
(*                                                                         *)
(* One media directory is modelled: its source image files, the manifest   *)
(* .thumbs.yml, and the sprite sheets thumbnails_<k>.<ext>.  The           *)
(* environment adds and removes source files; ProcessDirectory is one      *)
(* atomic action whose inputs are the force flag, the order in which the   *)
(* extension groups are visited (Go map iteration) and an injected         *)
(* failure of one external call.  Spec explores a directory of a few       *)
(* files, SpecBulk a directory whose groups span several batches, and      *)
(* SpecEnv a directory that is processed more often and whose manifest the *)
(* environment may damage.  SpecDiff, SpecRoundTrip, SpecBatch and         *)
(* SpecGroup apply diff, SaveThumbsFile and LoadThumbsFile, the batching   *)
(* loop and groupByType to arbitrary short inputs.                         *)
(*                                                                         *)
(* File names are records [pre, stem, form, ext]: `pre` is the literal     *)
(* prefix ("thumbnails_" for sheets, "." for the manifest, "" for source   *)
(* files), `stem` the base name, `form` the Unicode form of the base name  *)
(* as stored on disk and `ext` the extension without its dot.  Strings     *)
(* built with Sprintf or "+" are tuples of their parts; the empty string   *)
(* is the empty tuple.                                                     *)
(***************************************************************************)
EXTENDS Integers, Sequences, FiniteSets, TLC

VARIABLES sources, thumbsFile, sheets, lastRun, runs, changes, anyFailed

vars == <<sources, thumbsFile, sheets, lastRun, runs, changes, anyFailed>>

(***************************************************************************)
(* Program constants.                                                      *)
(***************************************************************************)
maxThumbSize == 324
maxPerRow == 10
maxRows == 5
jpegQuality == 95

\* The number of images the README says one thumbnails_* file may hold.
readmeImagesPerSheet == 500

(***************************************************************************)
(* Bounds of the exploration.                                              *)
(***************************************************************************)
MaxRuns == 2
MaxChanges == 2
MaxFaultAt == 1
MaxDiffLen == 2
MaxReruns == 3
MaxSaveLen == 2
MaxGroupLen == 120
MaxGroupNames == 3
MaxTiles == 21
MaxUnsorted == 3
MaxLoadedLen == 2
MaxDirs == 3

(***************************************************************************)
(* The universe of source files.  BulkA and BulkB are two blocks of        *)
(* maxPerRow * maxRows files each (.jpg and .jpeg), added and removed as a *)
(* unit, so that groups of more than one batch are reachable.  FileA       *)
(* sorts before both blocks.                                               *)
(***************************************************************************)
BulkSize == maxPerRow * maxRows

Name(pre, stem, form, ext) == [pre |-> pre, stem |-> stem, form |-> form, ext |-> ext]

FileS == Name("", 0, "nfc", "jpg")
FileA == Name("", 1, "nfc", "jpg")
BulkA == { Name("", s, "nfc", "jpg") : s \in 2..(BulkSize + 1) }
BulkB == { Name("", s, "nfc", "jpeg") : s \in (BulkSize + 2)..(2 * BulkSize + 1) }
FileP == Name("", 2 * BulkSize + 2, "nfc", "png")
FilePnfd == Name("", 2 * BulkSize + 2, "nfd", "png")
FileG == Name("", 2 * BulkSize + 3, "nfc", "gif")

\* What the environment adds or removes in one change.
Units == { {FileS}, {FileA}, {FileP}, {FilePnfd} }
BulkUnits == { BulkA, BulkB, {FileA} }
LoadedUnits == { {FileS}, {FileP}, {FileG} }
AllFiles == UNION (Units \cup BulkUnits \cup LoadedUnits)

\* The files "tile<stem>.png" used to exercise the layout come in three
\* kinds, told apart by stem modulo 3: a portrait image that is resized to a
\* narrow tile of the full height, a landscape image that is resized to a
\* tile of the full width, and a small image that is not resized.  Tile(p, k)
\* is the file of kind k for the p-th record of a batch.
TileWidths == <<maxThumbSize, 2 * maxThumbSize, 100>>
TileHeights == <<2 * maxThumbSize, 400, 100>>

Tile(p, kind) == Name("tile", 3 * (p - 1) + kind, "nfc", "png")

\* Pixel size of the image stored under a name.  FileS is a small picture
\* that needs no resizing; every other image of the jpg group is resized to
\* the full thumbnail height, so a batch of them is already in the order
\* sort.Sort wants and is left as it is.
ImageWidth(name) ==
    IF name.pre = "tile" THEN TileWidths[(name.stem % 3) + 1]
    ELSE IF name.ext = "png" THEN 100
    ELSE IF name = FileS THEN 300
    ELSE IF name.ext = "jpeg" THEN 2 * maxThumbSize
    ELSE maxThumbSize
ImageHeight(name) ==
    IF name.pre = "tile" THEN TileHeights[(name.stem % 3) + 1]
    ELSE IF name.ext = "png" THEN 200
    ELSE IF name = FileS THEN 100
    ELSE 2 * maxThumbSize

(***************************************************************************)
(* Strings.                                                                *)
(***************************************************************************)
EmptyString == <<>>

thumbsFileName == Name(".", 0, "nfc", "yml")

\* A variant of the sheet name that leaves the format out, so that the
\* groups share their sheets; C32 does not hold of it.
SheetName_NoFormat(batch, format) == Name("thumbnails_", batch, "nfc", "jpg")

\* fmt.Sprintf("thumbnails_%d.%s", batch, format)
SheetName(batch, format) == Name("thumbnails_", batch, "nfc", format)

\* Byte order of file names (sort.Strings, os.ReadDir).  ".thumbs.yml"
\* sorts first, the source files (digits) next, "thumbnails_*" last; a
\* decomposed (NFD) base name sorts before its composed form.
PreRank(pre) ==
    IF pre = "." THEN 0 ELSE IF pre = "" THEN 1 ELSE IF pre = "thumbnails_" THEN 2 ELSE 3
FormRank(form) == IF form = "nfd" THEN 0 ELSE 1
ExtRank(ext) ==
    IF ext = "jpeg" THEN 0 ELSE IF ext = "jpg" THEN 1 ELSE IF ext = "png" THEN 2 ELSE 3
Key(name) ==
    ((PreRank(name.pre) * (2 * BulkSize + 8) + name.stem) * 2 + FormRank(name.form)) * 4
        + ExtRank(name.ext)
StringLess(a, b) == Key(a) < Key(b)

\* Loops over long sequences are written as a step applied to the range
\* lo..hi of positions in order, the range being halved and the state after
\* the first half computed before the second half starts: the steps run in
\* the order of the loop, and the nesting of the evaluation stays shallow.
Then(first, second) == IF first = first THEN second ELSE second

\* One step of an insertion sort: x moves left past every element it is
\* less than, and stops at the first one it is not less than.
InsertSorted(s, x) ==
    IF s = <<>> \/ ~StringLess(x, s[Len(s)]) THEN Append(s, x)
    ELSE LET stay == { k \in 1..Len(s) : ~StringLess(x, s[k]) /\
                                         \A j \in (k + 1)..Len(s) : StringLess(x, s[j]) }
             at == IF stay = {} THEN 0 ELSE CHOOSE k \in stay : TRUE
         IN SubSeq(s, 1, at) \o <<x>> \o SubSeq(s, at + 1, Len(s))

RECURSIVE SortStringsLoop(_, _, _, _)
SortStringsLoop(s, lo, hi, acc) ==
    IF lo > hi THEN acc
    ELSE IF lo = hi THEN InsertSorted(acc, s[lo])
    ELSE LET half == SortStringsLoop(s, lo, (lo + hi) \div 2, acc)
         IN Then(half, SortStringsLoop(s, ((lo + hi) \div 2) + 1, hi, half))

SortStrings(s) == SortStringsLoop(s, 1, Len(s), <<>>)

\* The elements of a small set of names, in byte order.
RECURSIVE SetToSeq(_)
SetToSeq(S) ==
    IF S = {} THEN <<>>
    ELSE LET x == CHOOSE y \in S : \A z \in S : Key(y) <= Key(z)
         IN <<x>> \o SetToSeq(S \ {x})

AllFilesSorted ==
    <<FileS, FileA>>
        \o [s \in 1..BulkSize |-> Name("", s + 1, "nfc", "jpg")]
        \o [s \in 1..BulkSize |-> Name("", BulkSize + s + 1, "nfc", "jpeg")]
        \o <<FilePnfd, FileP, FileG>>

(***************************************************************************)
(* Media records.                                                          *)
(***************************************************************************)
EmptyPath == Name("", 0, "nfc", "")

NewMedia(path) ==
    [ Path |-> path, Width |-> 0, Height |-> 0, ThumbPath |-> EmptyString,
      ThumbXOffset |-> 0, ThumbYOffset |-> 0, ThumbWidth |-> 0, ThumbHeight |-> 0,
      ThumbTotalWidth |-> 0, ThumbTotalHeight |-> 0,
      Blurhash |-> "", BlurhashImageBase64 |-> "" ]

YamlKeys ==
    { "path", "width", "height", "thumb", "thumb_x", "thumb_y", "thumb_width",
      "thumb_height", "thumb_total_width", "thumb_total_height", "blurhash",
      "blurhash_image_base64" }

YamlValue(m, k) ==
    CASE k = "path" -> m.Path
      [] k = "width" -> m.Width
      [] k = "height" -> m.Height
      [] k = "thumb" -> m.ThumbPath
      [] k = "thumb_x" -> m.ThumbXOffset
      [] k = "thumb_y" -> m.ThumbYOffset
      [] k = "thumb_width" -> m.ThumbWidth
      [] k = "thumb_height" -> m.ThumbHeight
      [] k = "thumb_total_width" -> m.ThumbTotalWidth
      [] k = "thumb_total_height" -> m.ThumbTotalHeight
      [] k = "blurhash" -> m.Blurhash
      [] k = "blurhash_image_base64" -> m.BlurhashImageBase64

\* The keys that `omitempty` drops: those whose value is the zero value.
YamlOmitted(m) ==
    (IF m.Width = 0 THEN {"width"} ELSE {})
        \cup (IF m.Height = 0 THEN {"height"} ELSE {})
        \cup (IF m.ThumbPath = EmptyString THEN {"thumb"} ELSE {})
        \cup (IF m.ThumbXOffset = 0 THEN {"thumb_x"} ELSE {})
        \cup (IF m.ThumbYOffset = 0 THEN {"thumb_y"} ELSE {})
        \cup (IF m.ThumbWidth = 0 THEN {"thumb_width"} ELSE {})
        \cup (IF m.ThumbHeight = 0 THEN {"thumb_height"} ELSE {})
        \cup (IF m.ThumbTotalWidth = 0 THEN {"thumb_total_width"} ELSE {})
        \cup (IF m.ThumbTotalHeight = 0 THEN {"thumb_total_height"} ELSE {})
        \cup (IF m.Blurhash = "" THEN {"blurhash"} ELSE {})
        \cup (IF m.BlurhashImageBase64 = "" THEN {"blurhash_image_base64"} ELSE {})

\* yaml.Marshal of one record: a mapping holding the path and every
\* field that is not zero.
MarshalMedia(m) ==
    [ k \in YamlKeys \ YamlOmitted(m) |-> YamlValue(m, k) ]

\* A variant of UnmarshalMedia in which the field ThumbYOffset carries the
\* tag of ThumbXOffset; C16 does not hold of it.
UnmarshalMedia_CopiedTag(y) ==
    LET int(k) == IF k \in DOMAIN y THEN y[k] ELSE 0
        str(k) == IF k \in DOMAIN y THEN y[k] ELSE ""
    IN [ Path |-> IF "path" \in DOMAIN y THEN y["path"] ELSE EmptyPath,
         Width |-> int("width"), Height |-> int("height"),
         ThumbPath |-> IF "thumb" \in DOMAIN y THEN y["thumb"] ELSE EmptyString,
         ThumbXOffset |-> int("thumb_x"), ThumbYOffset |-> int("thumb_x"),
         ThumbWidth |-> int("thumb_width"), ThumbHeight |-> int("thumb_height"),
         ThumbTotalWidth |-> int("thumb_total_width"),
         ThumbTotalHeight |-> int("thumb_total_height"),
         Blurhash |-> str("blurhash"),
         BlurhashImageBase64 |-> str("blurhash_image_base64") ]

\* yaml.Unmarshal of one mapping: an absent key leaves the zero value.
UnmarshalMedia(y) ==
    LET int(k) == IF k \in DOMAIN y THEN y[k] ELSE 0
        str(k) == IF k \in DOMAIN y THEN y[k] ELSE ""
    IN [ Path |-> IF "path" \in DOMAIN y THEN y["path"] ELSE EmptyPath,
         Width |-> int("width"), Height |-> int("height"),
         ThumbPath |-> IF "thumb" \in DOMAIN y THEN y["thumb"] ELSE EmptyString,
         ThumbXOffset |-> int("thumb_x"), ThumbYOffset |-> int("thumb_y"),
         ThumbWidth |-> int("thumb_width"), ThumbHeight |-> int("thumb_height"),
         ThumbTotalWidth |-> int("thumb_total_width"),
         ThumbTotalHeight |-> int("thumb_total_height"),
         Blurhash |-> str("blurhash"),
         BlurhashImageBase64 |-> str("blurhash_image_base64") ]

\* The manifest file: absent, holding a YAML list ("ok"), present but not
\* readable ("unreadable"), or holding bytes that are not a YAML list of
\* mappings ("malformed").
AbsentFile == [state |-> "absent", content |-> <<>>]

\* A variant of LoadThumbsFile that reports a file it cannot decode as a
\* missing one; C14 does not hold of it.
LoadThumbsFile_MalformedAsMissing(f) ==
    IF f.state # "ok" THEN [err |-> "ErrThumbYamlNotFound", media |-> <<>>]
    ELSE [err |-> "nil",
          media |-> [i \in 1..Len(f.content) |-> UnmarshalMedia(f.content[i])]]

LoadThumbsFile(f) ==
    IF f.state = "absent" THEN [err |-> "ErrThumbYamlNotFound", media |-> <<>>]
    ELSE IF f.state = "unreadable" THEN [err |-> "reading file", media |-> <<>>]
    ELSE IF f.state = "malformed" THEN [err |-> "unmarshaling file", media |-> <<>>]
    ELSE [err |-> "nil",
          media |-> [i \in 1..Len(f.content) |-> UnmarshalMedia(f.content[i])]]

\* A variant of SaveThumbsFile without the early return, which writes an
\* empty list; C15 does not hold of it.
SaveThumbsFile_WritesEmpty(f, media, fault) ==
    [err |-> "nil",
     file |-> [state |-> "ok",
               content |-> [i \in 1..Len(media) |-> MarshalMedia(media[i])]]]

\* SaveThumbsFile(path, media): nothing is done for an empty list; otherwise
\* the records are marshalled and handed to os.WriteFile in one call, whose
\* error is returned as "writing file".  os.WriteFile opens the file with
\* O_TRUNC and then writes: when it fails, the file is as it was (fault
\* "save": it could not be opened), or holds the first fault.at records
\* (fault "savecut": the write stopped at a record boundary, at 0 the file
\* is empty), or holds bytes the decoder rejects (fault "savepartial": the
\* write stopped inside a record).  yaml.Marshal returns no error for a
\* list of records of strings and integers, so the "marshaling media"
\* return is never taken.
SaveThumbsFile(f, media, fault) ==
    LET content == [i \in 1..Len(media) |-> MarshalMedia(media[i])]
        written == IF fault.at < Len(media) THEN fault.at ELSE Len(media) - 1
    IN IF Len(media) = 0 THEN [err |-> "nil", file |-> f]
       ELSE IF fault.op = "save" THEN [err |-> "writing file", file |-> f]
       ELSE IF fault.op = "savecut"
       THEN [err |-> "writing file",
             file |-> [state |-> "ok", content |-> SubSeq(content, 1, written)]]
       ELSE IF fault.op = "savepartial"
       THEN [err |-> "writing file", file |-> [state |-> "malformed", content |-> <<>>]]
       ELSE [err |-> "nil", file |-> [state |-> "ok", content |-> content]]

(***************************************************************************)
(* External calls.  `io` carries the directory's sheet files and the log   *)
(* of the calls made in this run; `fault` names the one call that fails:   *)
(* [op |-> "upload", at |-> n] makes the n-th Upload call of the run       *)
(* return an error, "write" and "truncate" make the n-th os.WriteFile of   *)
(* a sheet fail (before or after the file has been truncated), "decode"    *)
(* makes the n-th image.Decode fail, "scan" makes os.ReadDir fail, "save",  *)
(* "savecut" and "savepartial" make the os.WriteFile of the manifest fail. *)
(* The                                                                     *)
(* uploader is the one that puts the object into the bucket, io.remote,    *)
(* unless `fault` is NoOpUploader: then it is uploader.NoOp, which does    *)
(* nothing and never returns an error.  io.sort names the sort.Sort of the *)
(* build.                                                                  *)
(***************************************************************************)
NoFault == [op |-> "none", at |-> 0]

NoOpUploader == [op |-> "noop", at |-> 0]

\* The ways the write of the manifest can fail.
SaveFaults ==
    {[op |-> "save", at |-> 1], [op |-> "savepartial", at |-> 1]}
        \cup { [op |-> "savecut", at |-> n] : n \in 0..MaxFaultAt }

\* The faults tried on the run of a directory.  The write of the manifest
\* fails the two ways the write of a sheet does: the file is left as it
\* was, or it is left empty.
Faults ==
    {NoFault, NoOpUploader, [op |-> "scan", at |-> 1]}
        \cup { [op |-> o, at |-> n] : o \in {"upload", "write", "truncate", "decode"}, n \in 1..MaxFaultAt }
        \cup {[op |-> "save", at |-> 1], [op |-> "savecut", at |-> 0]}

Event(op, key, body, ok) == [op |-> op, key |-> key, body |-> body, ok |-> ok]

\* A directory without sheets.
NoSheets == [s \in {} |-> <<>>]

NewIO(sh, sorter) ==
    [sheets |-> sh, events |-> <<>>, plan |-> <<>>, uploads |-> 0, writes |-> 0,
     decodes |-> 0, remote |-> [k \in {} |-> <<>>], sort |-> sorter]

Log(io, e) == [io EXCEPT !.events = Append(@, e)]

\* The bytes of a source file.
FileContent(name) == << <<Key(name), 0, 0>> >>

\* os.ReadFile(filepath.Join(dir, file)): the name must exist as stored.
ReadFile(io, file, dirFiles) ==
    LET ok == file \in dirFiles
    IN [err |-> IF ok THEN "nil" ELSE "reading file",
        content |-> IF ok THEN FileContent(file) ELSE <<>>,
        io |-> Log(io, Event("read", file, <<>>, ok))]

\* A variant of Upload in which the uploader that does nothing returns an
\* error; C33 does not hold of it.
Upload_NoOpFails(io, key, body, fault) ==
    LET n == io.uploads + 1
        ok == ~(fault.op = "upload" /\ fault.at = n) /\ fault # NoOpUploader
    IN [err |-> IF ok THEN "nil" ELSE "uploading",
        io |-> [Log(io, Event("upload", key, body, ok)) EXCEPT !.uploads = n]]

\* uploader.Upload(key, body): R2.Upload puts the object into the bucket
\* and returns the client's error, NoOp.Upload returns nil.
Upload(io, key, body, fault) ==
    LET n == io.uploads + 1
        ok == ~(fault.op = "upload" /\ fault.at = n)
        put == [k \in DOMAIN io.remote \cup {key} |->
                   IF k = key THEN body ELSE io.remote[k]]
    IN [err |-> IF ok THEN "nil" ELSE "uploading",
        io |-> [Log(io, Event("upload", key, body, ok))
                    EXCEPT !.uploads = n,
                           !.remote = IF ok /\ fault # NoOpUploader THEN put ELSE @]]

\* os.WriteFile(filepath.Join(dir, thumbPath), b, 0o644)
WriteSheet(io, name, b, fault) ==
    LET n == io.writes + 1
        failed == fault.op \in {"write", "truncate"} /\ fault.at = n
        content == IF ~failed THEN b ELSE <<>>
        sh == IF failed /\ fault.op = "write" THEN io.sheets
              ELSE [s \in DOMAIN io.sheets \cup {name} |->
                        IF s = name THEN content ELSE io.sheets[s]]
    IN [err |-> IF failed THEN "writing thumbnail" ELSE "nil",
        io |-> [Log(io, Event("write", name, b, ~failed))
                    EXCEPT !.writes = n, !.sheets = sh]]

(***************************************************************************)
(* ScanDirectory                                                           *)
(***************************************************************************)
contains(arr, needle) == \E i \in 1..Len(arr) : arr[i] = needle

containsMedia(arr, needle) == \E i \in 1..Len(arr) : arr[i].Path = needle

\* norm.NFC.String(in)
fixUnicode(in) == [in EXCEPT !.form = "nfc"]

\* os.ReadDir: every entry of the directory, sorted by file name.
ReadDir(dirFiles, f, sh) ==
    LET present(n) == n \in dirFiles
    IN (IF f.state = "absent" THEN <<>> ELSE <<thumbsFileName>>)
           \o SelectSeq(AllFilesSorted, present)
           \o SetToSeq(DOMAIN sh)

\* A variant of ScanDirectory that keeps the files of every extension, the
\* manifest aside; C34 does not hold of it.
ScanDirectory_AnyExtension(entries, fault) ==
    IF fault.op = "scan" THEN [err |-> "reading directory", files |-> <<>>]
    ELSE LET keep(e) == e.pre # "thumbnails_" /\ e.pre # "."
             kept == SelectSeq(entries, keep)
             result == [i \in 1..Len(kept) |-> fixUnicode(kept[i])]
         IN [err |-> "nil", files |-> SortStrings(result)]

ScanDirectory(entries, fault) ==
    IF fault.op = "scan" THEN [err |-> "reading directory", files |-> <<>>]
    ELSE LET keep(e) == /\ e.pre # "thumbnails_"
                        /\ contains(<<"jpg", "jpeg", "png">>, e.ext)
             kept == SelectSeq(entries, keep)
             result == [i \in 1..Len(kept) |-> fixUnicode(kept[i])]
         IN [err |-> "nil", files |-> SortStrings(result)]

(***************************************************************************)
(* diff and UploadNewMedia                                                 *)
(***************************************************************************)
\* A variant of diff that compares names after Unicode normalisation instead
\* of byte for byte; C7 does not hold of it.
diff_Normalizing(media, files) ==
    LET paths == { fixUnicode(media[i].Path) : i \in 1..Len(media) }
        scanned == { fixUnicode(files[i]) : i \in 1..Len(files) }
        isNew(file) == fixUnicode(file) \notin paths
        isGone(m) == fixUnicode(m.Path) \notin scanned
        gone == SelectSeq(media, isGone)
    IN [toAdd |-> SelectSeq(files, isNew),
        toDelete |-> [i \in 1..Len(gone) |-> gone[i].Path]]

\* containsMedia(media, file) and contains(files, path) are membership in
\* the set of the recorded paths and in the set of the scanned names.
diff(media, files) ==
    LET paths == { media[i].Path : i \in 1..Len(media) }
        scanned == { files[i] : i \in 1..Len(files) }
        isNew(file) == file \notin paths
        isGone(m) == m.Path \notin scanned
        gone == SelectSeq(media, isGone)
    IN [toAdd |-> SelectSeq(files, isNew),
        toDelete |-> [i \in 1..Len(gone) |-> gone[i].Path]]

\* A variant of AddStep that puts the new record first; C29 does not hold
\* of it.
AddStep_Prepends(st, file, dirFiles, fault) ==
    LET uploaded(up) ==
            IF up.err # "nil" THEN [err |-> "uploading file", media |-> <<>>, io |-> up.io]
            ELSE [err |-> "nil", media |-> <<NewMedia(file)>> \o st.media, io |-> up.io]
        read(rd) ==
            IF rd.err # "nil" THEN [err |-> "reading file", media |-> <<>>, io |-> rd.io]
            ELSE uploaded(Upload(rd.io, file, rd.content, fault))
    IN IF st.err # "nil" THEN st ELSE read(ReadFile(st.io, file, dirFiles))

\* A variant of AddStep that puts the new record before the records whose
\* name sorts after its own; C30 does not hold of it.
AddStep_InsertsSorted(st, file, dirFiles, fault) ==
    LET uploaded(up) ==
            IF up.err # "nil" THEN [err |-> "uploading file", media |-> <<>>, io |-> up.io]
            ELSE [err |-> "nil",
                  media |-> SelectSeq(st.media, LAMBDA m : ~StringLess(file, m.Path))
                                \o <<NewMedia(file)>>
                                \o SelectSeq(st.media, LAMBDA m : StringLess(file, m.Path)),
                  io |-> up.io]
        read(rd) ==
            IF rd.err # "nil" THEN [err |-> "reading file", media |-> <<>>, io |-> rd.io]
            ELSE uploaded(Upload(rd.io, file, rd.content, fault))
    IN IF st.err # "nil" THEN st ELSE read(ReadFile(st.io, file, dirFiles))

\* The body of the loop over toAdd; st is [err, media, io], and a step
\* after the loop has returned an error does nothing.
AddStep(st, file, dirFiles, fault) ==
    LET uploaded(up) ==
            IF up.err # "nil" THEN [err |-> "uploading file", media |-> <<>>, io |-> up.io]
            ELSE [err |-> "nil", media |-> Append(st.media, NewMedia(file)), io |-> up.io]
        read(rd) ==
            IF rd.err # "nil" THEN [err |-> "reading file", media |-> <<>>, io |-> rd.io]
            ELSE uploaded(Upload(rd.io, file, rd.content, fault))
    IN IF st.err # "nil" THEN st ELSE read(ReadFile(st.io, file, dirFiles))

RECURSIVE AddLoop(_, _, _, _, _, _)
AddLoop(toAdd, lo, hi, st, dirFiles, fault) ==
    IF lo > hi THEN st
    ELSE IF lo = hi THEN AddStep(st, toAdd[lo], dirFiles, fault)
    ELSE LET half == AddLoop(toAdd, lo, (lo + hi) \div 2, st, dirFiles, fault)
         IN Then(half, AddLoop(toAdd, ((lo + hi) \div 2) + 1, hi, half, dirFiles, fault))

\* The inner loop of the deletion: drop the first record with this path.
RemoveFirst(media, file) ==
    IF ~containsMedia(media, file) THEN media
    ELSE LET i == CHOOSE k \in 1..Len(media) :
                    /\ media[k].Path = file
                    /\ \A j \in 1..(k - 1) : media[j].Path # file
         IN SubSeq(media, 1, i - 1) \o SubSeq(media, i + 1, Len(media))

RECURSIVE DeleteLoop(_, _, _, _)
DeleteLoop(toDelete, lo, hi, media) ==
    IF lo > hi THEN media
    ELSE IF lo = hi THEN RemoveFirst(media, toDelete[lo])
    ELSE LET half == DeleteLoop(toDelete, lo, (lo + hi) \div 2, media)
         IN Then(half, DeleteLoop(toDelete, ((lo + hi) \div 2) + 1, hi, half))

UploadNewMedia(io, media, files, dirFiles, fault) ==
    LET deleted(toDelete, added) ==
            IF added.err # "nil" THEN added
            ELSE [err |-> "nil",
                  media |-> DeleteLoop(toDelete, 1, Len(toDelete), added.media),
                  io |-> added.io]
        diffed(d) ==
            deleted(d.toDelete,
                    AddLoop(d.toAdd, 1, Len(d.toAdd),
                            [err |-> "nil", media |-> media, io |-> io], dirFiles, fault))
    IN diffed(diff(media, files))

(***************************************************************************)
(* groupByType.  The records are pointers shared with the caller's slice:  *)
(* a group is the sequence of the positions of its records in `media`.     *)
(***************************************************************************)
\* strings.Trim(filepath.Ext(path), "."), with "jpeg" folded into "jpg"
TypeOf(path) == IF path.ext = "jpeg" THEN "jpg" ELSE path.ext

\* A variant of groupByType that does not fold "jpeg" into "jpg"; C18 does
\* not hold of it.
groupByType_NoFold(media) ==
    LET positions == [i \in 1..Len(media) |-> i]
    IN [ext \in { media[i].Path.ext : i \in 1..Len(media) } |->
            LET inGroup(i) == media[i].Path.ext = ext
            IN SelectSeq(positions, inGroup)]

groupByType(media) ==
    LET positions == [i \in 1..Len(media) |-> i]
    IN [ext \in { TypeOf(media[i].Path) : i \in 1..Len(media) } |->
            LET inGroup(i) == TypeOf(media[i].Path) = ext
            IN SelectSeq(positions, inGroup)]

(***************************************************************************)
(* GenerateThumbnail                                                       *)
(***************************************************************************)
\* resize.Thumbnail(maxWidth, maxHeight, img, ...): the size of the result.
Thumbnail(maxWidth, maxHeight, origWidth, origHeight) ==
    IF maxWidth >= origWidth /\ maxHeight >= origHeight
    THEN [w |-> origWidth, h |-> origHeight]
    ELSE LET h1 == IF origWidth > maxWidth
                   THEN (IF (origHeight * maxWidth) \div origWidth < 1 THEN 1
                         ELSE (origHeight * maxWidth) \div origWidth)
                   ELSE origHeight
             w1 == IF origWidth > maxWidth THEN maxWidth ELSE origWidth
             w2 == IF h1 > maxHeight
                   THEN (IF (w1 * maxHeight) \div h1 < 1 THEN 1
                         ELSE (w1 * maxHeight) \div h1)
                   ELSE w1
             h2 == IF h1 > maxHeight THEN maxHeight ELSE h1
         IN [w |-> w2, h |-> h2]

\* readImage: os.Open of the recorded path, then image.Decode.
readImage(io, path, dirFiles, fault) ==
    LET n == io.decodes + 1
        opened == path \in dirFiles
        decoded == ~(fault.op = "decode" /\ fault.at = n)
    IN IF ~opened
       THEN [err |-> "opening file", io |-> Log(io, Event("open", path, <<>>, FALSE))]
       ELSE [err |-> IF decoded THEN "nil" ELSE "decoding image",
             io |-> [Log(io, Event("decode", path, <<>>, decoded)) EXCEPT !.decodes = n]]

\* A variant of DecodeStep that leaves out an image it cannot read and goes
\* on with the rest of the batch; C13 does not hold of it.
DecodeStep_SkipsBroken(st, p, dirFiles, fault) ==
    LET path == st.heap[p].Path
        resized(img, t) ==
            [err |-> "nil",
             heap |-> IF img.err # "nil" THEN st.heap
                      ELSE [st.heap EXCEPT ![p] = [@ EXCEPT !.Width = ImageWidth(path),
                                                          !.Height = ImageHeight(path),
                                                          !.ThumbWidth = t.w,
                                                          !.ThumbHeight = t.h]],
             io |-> img.io]
    IN IF st.err # "nil" THEN st
       ELSE resized(readImage(st.io, path, dirFiles, fault),
                    Thumbnail(maxThumbSize, maxThumbSize, ImageWidth(path),
                              ImageHeight(path)))

\* The body of the first loop of GenerateThumbnail: decode and resize one
\* record; st is [err, heap, io].
DecodeStep(st, p, dirFiles, fault) ==
    LET path == st.heap[p].Path
        resized(img, t) ==
            IF img.err # "nil"
            THEN [err |-> "reading image", heap |-> st.heap, io |-> img.io]
            ELSE [err |-> "nil",
                  heap |-> [st.heap EXCEPT ![p] = [@ EXCEPT !.Width = ImageWidth(path),
                                                           !.Height = ImageHeight(path),
                                                           !.ThumbWidth = t.w,
                                                           !.ThumbHeight = t.h]],
                  io |-> img.io]
    IN IF st.err # "nil" THEN st
       ELSE resized(readImage(st.io, path, dirFiles, fault),
                    Thumbnail(maxThumbSize, maxThumbSize, ImageWidth(path),
                              ImageHeight(path)))

RECURSIVE DecodeLoop(_, _, _, _, _, _)
DecodeLoop(media, lo, hi, st, dirFiles, fault) ==
    IF lo > hi THEN st
    ELSE IF lo = hi THEN DecodeStep(st, media[lo], dirFiles, fault)
    ELSE LET half == DecodeLoop(media, lo, (lo + hi) \div 2, st, dirFiles, fault)
         IN Then(half, DecodeLoop(media, ((lo + hi) \div 2) + 1, hi, half, dirFiles, fault))

\* A variant of Less that orders the containers by ascending height; C28
\* does not hold of it.
Less_Ascending(heap, a, b) == heap[a].ThumbHeight < heap[b].ThumbHeight

\* ByThumbHeightDesc.Less on two containers
Less(heap, a, b) == heap[a].ThumbHeight > heap[b].ThumbHeight

(***************************************************************************)
(* sort.Sort(ByThumbHeightDesc(containers)).  The order sort.Sort leaves   *)
(* containers of equal height in is not specified; it is the order the     *)
(* library of the toolchain produces: pdqsort since Go 1.19, quickSort     *)
(* before.  Both are transcribed step by step.  The slice is the sequence  *)
(* d; the indices of the library are 0-based, index i is d[i + 1].         *)
(***************************************************************************)
\* data.Swap(i, j)
Swap(d, i, j) == [d EXCEPT ![i + 1] = d[j + 1], ![j + 1] = d[i + 1]]

\* data.Less(i, j)
LessAt(heap, d, i, j) == Less(heap, d[i + 1], d[j + 1])

\* The least index of S, a set of indices of lo..hi, and hi + 1 when S is
\* empty: where a loop `for i <= hi && !(i in S) { i++ }` started at lo
\* stops.
FirstFrom(lo, hi, S) ==
    IF S = {} THEN hi + 1 ELSE CHOOSE k \in S : \A m \in S : k <= m

\* The greatest index of S, a set of indices of lo..hi, and lo - 1 when S is
\* empty.
LastFrom(lo, hi, S) ==
    IF S = {} THEN lo - 1 ELSE CHOOSE k \in S : \A m \in S : k >= m

\* The element at index from taken out and put in at index to, which is
\* what a run of swaps of neighbours does.
MoveTo(d, from, to) ==
    [k \in 1..Len(d) |->
        IF k - 1 = to THEN d[from + 1]
        ELSE IF from < to /\ from <= k - 1 /\ k - 1 < to THEN d[k + 1]
        ELSE IF to < from /\ to < k - 1 /\ k - 1 <= from THEN d[k - 1]
        ELSE d[k]]

\* The loop of a partition over the indices lo..hi, Ls being the indices
\* at which the test of the loop going up fails: i goes up to the next
\* index of Ls, j goes down to the next index outside Ls, the two are
\* swapped, until i and j meet.  The n-th index of Ls from the left is
\* swapped with the n-th index outside Ls from the right, as long as the
\* first is left of the second.  The result is the slice and the number of
\* swaps.
PairSwap(d, lo, hi, Ls) ==
    LET swapped(pairs) ==
            [d |-> [k \in 1..Len(d) |->
                      IF \E pr \in pairs : pr[1] = k - 1
                      THEN d[(CHOOSE pr \in pairs : pr[1] = k - 1)[2] + 1]
                      ELSE IF \E pr \in pairs : pr[2] = k - 1
                      THEN d[(CHOOSE pr \in pairs : pr[2] = k - 1)[1] + 1]
                      ELSE d[k]],
             swaps |-> Cardinality(pairs)]
    IN swapped({ pr \in Ls \X ((lo..hi) \ Ls) :
                   /\ pr[1] < pr[2]
                   /\ Cardinality({ m \in Ls : m <= pr[1] })
                         = Cardinality({ m \in (lo..hi) \ Ls : m >= pr[2] }) })

\* One step of insertionSort: x moves left past every container it is Less
\* than.
InsertContainer(heap, s, x) ==
    IF s = <<>> \/ ~Less(heap, x, s[Len(s)]) THEN Append(s, x)
    ELSE LET stay == { k \in 1..Len(s) : ~Less(heap, x, s[k]) /\
                                         \A j \in (k + 1)..Len(s) : Less(heap, x, s[j]) }
             at == IF stay = {} THEN 0 ELSE CHOOSE k \in stay : TRUE
         IN SubSeq(s, 1, at) \o <<x>> \o SubSeq(s, at + 1, Len(s))

RECURSIVE SortLoop(_, _, _, _, _)
SortLoop(heap, s, lo, hi, acc) ==
    IF lo > hi THEN acc
    ELSE IF lo = hi THEN InsertContainer(heap, acc, s[lo])
    ELSE LET half == SortLoop(heap, s, lo, (lo + hi) \div 2, acc)
         IN Then(half, SortLoop(heap, s, ((lo + hi) \div 2) + 1, hi, half))

\* insertionSort(data, a, b)
insertionSort(heap, d, a, b) ==
    SubSeq(d, 1, a) \o SortLoop(heap, SubSeq(d, a + 1, b), 1, b - a, <<>>)
                    \o SubSeq(d, b + 1, Len(d))

\* siftDown(data, lo, hi, first), root being lo
RECURSIVE siftDown(_, _, _, _, _)
siftDown(heap, d, root, hi, first) ==
    LET child == IF 2 * root + 2 < hi
                    /\ LessAt(heap, d, first + 2 * root + 1, first + 2 * root + 2)
                 THEN 2 * root + 2 ELSE 2 * root + 1
    IN Then(d,
       IF 2 * root + 1 >= hi THEN d
       ELSE IF ~LessAt(heap, d, first + root, first + child) THEN d
       ELSE siftDown(heap, Swap(d, first + root, first + child), child, hi, first))

\* The two loops of heapSort, i going down from `from` to `to`: building
\* the heap (pop FALSE), and popping its top to the end (pop TRUE).
RECURSIVE HeapLoop(_, _, _, _, _, _, _)
HeapLoop(heap, d, from, to, hi, first, pop) ==
    IF from < to THEN d
    ELSE IF from = to
    THEN (IF pop THEN siftDown(heap, Swap(d, first, first + from), 0, from, first)
          ELSE siftDown(heap, d, from, hi, first))
    ELSE LET half == HeapLoop(heap, d, from, ((from + to) \div 2) + 1, hi, first, pop)
         IN Then(half, HeapLoop(heap, half, (from + to) \div 2, to, hi, first, pop))

\* heapSort(data, a, b)
heapSort(heap, d, a, b) ==
    LET popped(built) == HeapLoop(heap, built, b - a - 1, 0, b - a, a, TRUE)
    IN popped(HeapLoop(heap, d, (b - a - 1) \div 2, 0, b - a, a, FALSE))

\* bits.Len(n)
bitsLen(n) == CHOOSE k \in 0..30 : n < 2 ^ k /\ (k = 0 \/ 2 ^ (k - 1) <= n)

\* A uint64 as its 64 bits, the lowest first.
ToBits(n) == [i \in 1..64 |-> IF i <= 30 THEN (n \div (2 ^ (i - 1))) % 2 ELSE 0]

Xor(x, y) == [i \in 1..64 |-> (x[i] + y[i]) % 2]

ShiftLeft(x, n) == [i \in 1..64 |-> IF i > n THEN x[i - n] ELSE 0]

ShiftRight(x, n) == [i \in 1..64 |-> IF i + n <= 64 THEN x[i + n] ELSE 0]

\* The value of the lowest n bits.
RECURSIVE LowBits(_, _)
LowBits(x, n) == IF n = 0 THEN 0 ELSE 2 * LowBits(ShiftRight(x, 1), n - 1) + x[1]

\* (*xorshift).Next
xorshiftNext(r) ==
    LET third(x) == Xor(x, ShiftLeft(x, 17))
        second(x) == third(Xor(x, ShiftRight(x, 7)))
    IN second(Xor(r, ShiftLeft(r, 13)))

\* breakPatterns(data, a, b)
breakPatterns(heap, d, a, b) ==
    LET length == b - a
        idx == a + (length \div 4) * 2 - 1
        other(r) == LET low(v) == IF v >= length THEN v - length ELSE v
                    IN low(LowBits(r, bitsLen(length)))
        step3(d2, r) == Swap(d2, idx + 1, a + other(r))
        step2(d1, r) == step3(Swap(d1, idx, a + other(r)), xorshiftNext(r))
        step1(r) == step2(Swap(d, idx - 1, a + other(r)), xorshiftNext(r))
    IN IF length >= 8 THEN step1(xorshiftNext(ToBits(length))) ELSE d

\* order2(data, a, b, swaps): the two indices in order and the new count
order2(heap, d, x, y, swaps) ==
    IF LessAt(heap, d, y, x) THEN <<y, x, swaps + 1>> ELSE <<x, y, swaps>>

\* median(data, a, b, c, swaps): the index of the median and the new count
median(heap, d, x, y, z, swaps) ==
    LET last(lo, mid, n) == <<order2(heap, d, lo, mid, n)[2], order2(heap, d, lo, mid, n)[3]>>
        second(s1, s2) == last(s1[1], s2[1], s2[3])
        first(s1) == second(s1, order2(heap, d, s1[2], z, s1[3]))
    IN first(order2(heap, d, x, y, swaps))

\* choosePivot(data, a, b): the index of the pivot and the hint
choosePivot(heap, d, a, b) ==
    LET l == b - a
        \* medianAdjacent(data, a, swaps)
        medianAdjacent(x, swaps) == median(heap, d, x - 1, x, x + 1, swaps)
        hinted(m) == [pivot |-> m[1],
                      hint |-> IF m[2] = 0 THEN "increasing"
                               ELSE IF m[2] = 12 THEN "decreasing" ELSE "unknown"]
        ninther3(i, j, k) == median(heap, d, i[1], j[1], k[1], k[2])
        ninther2(i, j) == ninther3(i, j, medianAdjacent(a + (l \div 4) * 3, j[2]))
        ninther1(i) == ninther2(i, medianAdjacent(a + (l \div 4) * 2, i[2]))
    IN IF l < 8 THEN [pivot |-> a + (l \div 4) * 2, hint |-> "increasing"]
       ELSE IF l >= 50 THEN hinted(ninther1(medianAdjacent(a + (l \div 4) * 1, 0)))
       ELSE hinted(median(heap, d, a + (l \div 4) * 1, a + (l \div 4) * 2,
                          a + (l \div 4) * 3, 0))

\* reverseRange(data, a, b)
reverseRange(d, a, b) ==
    [k \in 1..Len(d) |-> IF a <= k - 1 /\ k - 1 < b THEN d[a + b - k + 1] ELSE d[k]]

\* partialInsertionSort(data, a, b), from its step-th round on, i being
\* where the last round stopped: the slice and whether it is sorted.
RECURSIVE PartialSteps(_, _, _, _, _, _)
PartialSteps(heap, d, a, b, i, step) ==
    LET right(d2, at) ==
            IF b - at >= 2
            THEN MoveTo(d2, at,
                        FirstFrom(at + 1, b - 1,
                                  { k \in (at + 1)..(b - 1) :
                                      ~Less(heap, d2[k + 1], d2[at + 1]) }) - 1)
            ELSE d2
        left(d1, at) ==
            right(IF at - a >= 2
                  THEN MoveTo(d1, at - 1,
                              LastFrom(0, at - 2,
                                       { k \in 0..(at - 2) :
                                           ~Less(heap, d1[at], d1[k + 1]) }) + 1)
                  ELSE d1, at)
        found(at) ==
            IF at = b THEN [d |-> d, sorted |-> TRUE]
            ELSE IF b - a < 50 THEN [d |-> d, sorted |-> FALSE]
            ELSE PartialSteps(heap, left(Swap(d, at, at - 1), at), a, b, at, step + 1)
    IN Then(d,
       IF step = 5 THEN [d |-> d, sorted |-> FALSE]
       ELSE found(FirstFrom(i, b - 1, { k \in i..(b - 1) : LessAt(heap, d, k, k - 1) })))

partialInsertionSort(heap, d, a, b) == PartialSteps(heap, d, a, b, a + 1, 0)

\* partitionEqual(data, a, b, pivot): the slice and the new a
partitionEqual(heap, d, a, b, pivot) ==
    LET done(d0) ==
            [d |-> PairSwap(d0, a + 1, b - 1,
                           { k \in (a + 1)..(b - 1) : LessAt(heap, d0, a, k) }).d,
             mid |-> a + 1 + Cardinality({ k \in (a + 1)..(b - 1) : ~LessAt(heap, d0, a, k) })]
    IN done(Swap(d, a, pivot))

\* partition(data, a, b, pivot): the slice, the index of the pivot, and
\* whether the slice was partitioned already
partition(heap, d, a, b, pivot) ==
    LET placed(d0, ps, j) ==
            [d |-> Swap(ps.d, j, a), mid |-> j, already |-> ps.swaps = 0]
        done(d0) ==
            placed(d0, PairSwap(d0, a + 1, b - 1,
                                { k \in (a + 1)..(b - 1) : ~LessAt(heap, d0, k, a) }),
                   a + Cardinality({ k \in (a + 1)..(b - 1) : LessAt(heap, d0, k, a) }))
    IN done(Swap(d, a, pivot))

\* pdqsort(data, a, b, limit), from the top of its loop.  The slice is
\* evaluated before the loop starts.
RECURSIVE pdqsort(_, _, _, _, _, _, _)
pdqsort(heap, d, a, b, limit, wasBalanced, wasPartitioned) ==
    LET split(pt, lim) ==
            IF pt.mid - a < b - pt.mid
            THEN pdqsort(heap, pdqsort(heap, pt.d, a, pt.mid, lim, TRUE, TRUE),
                         pt.mid + 1, b, lim, pt.mid - a >= (b - a) \div 8, pt.already)
            ELSE pdqsort(heap, pdqsort(heap, pt.d, pt.mid + 1, b, lim, TRUE, TRUE),
                         a, pt.mid, lim, b - pt.mid >= (b - a) \div 8, pt.already)
        equal(pe, lim) == pdqsort(heap, pe.d, pe.mid, b, lim, wasBalanced, wasPartitioned)
        parted(d3, pivot, lim) ==
            IF a > 0 /\ ~LessAt(heap, d3, a - 1, pivot)
            THEN equal(partitionEqual(heap, d3, a, b, pivot), lim)
            ELSE split(partition(heap, d3, a, b, pivot), lim)
        tried(pis, pivot, lim) ==
            IF pis.sorted THEN pis.d ELSE parted(pis.d, pivot, lim)
        hinted(d2, pivot, hint, lim) ==
            tried(IF wasBalanced /\ wasPartitioned /\ hint = "increasing"
                  THEN partialInsertionSort(heap, d2, a, b)
                  ELSE [d |-> d2, sorted |-> FALSE], pivot, lim)
        chosen(d1, cp, lim) ==
            hinted(IF cp.hint = "decreasing" THEN reverseRange(d1, a, b) ELSE d1,
                   IF cp.hint = "decreasing" THEN (b - 1) - (cp.pivot - a) ELSE cp.pivot,
                   IF cp.hint = "decreasing" THEN "increasing" ELSE cp.hint, lim)
        broken(d1, lim) == chosen(d1, choosePivot(heap, d1, a, b), lim)
    IN Then(d,
       IF b - a <= 12 THEN insertionSort(heap, d, a, b)
       ELSE IF limit = 0 THEN heapSort(heap, d, a, b)
       ELSE broken(IF ~wasBalanced THEN breakPatterns(heap, d, a, b) ELSE d,
                   IF ~wasBalanced THEN limit - 1 ELSE limit))

\* medianOfThree(data, m1, m0, m2)
medianOfThree(heap, d, m1, m0, m2) ==
    LET third(d2) == IF LessAt(heap, d2, m1, m0) THEN Swap(d2, m1, m0) ELSE d2
        second(d1) == IF LessAt(heap, d1, m2, m1) THEN third(Swap(d1, m2, m1)) ELSE d1
    IN second(IF LessAt(heap, d, m1, m0) THEN Swap(d, m1, m0) ELSE d)

\* doPivot(data, lo, hi): the slice, midlo and midhi
doPivot(heap, d, lo, hi) ==
    LET m == (lo + hi) \div 2
        s == (hi - lo) \div 8
        pivot == lo
        placed(d6, b, c) == [d |-> Swap(d6, pivot, b - 1), midlo |-> b - 1, midhi |-> c]
        \* small: hi-c < 5; few: the points are tested for equality to the
        \* pivot, and dups counts the equal ones
        finish(st, a, small, few) ==
            IF small \/ (few /\ st.dups > 1)
            THEN placed(PairSwap(st.d, a, st.b - 1,
                                 { k \in a..(st.b - 1) :
                                     ~LessAt(heap, st.d, k, pivot) }).d,
                        a + Cardinality({ k \in a..(st.b - 1) :
                                            LessAt(heap, st.d, k, pivot) }), st.c)
            ELSE placed(st.d, st.b, st.c)
        dup3(st, a, small, few) ==
            finish(IF few /\ ~LessAt(heap, st.d, m, pivot)
                   THEN [d |-> Swap(st.d, m, st.b - 1), b |-> st.b - 1, c |-> st.c,
                         dups |-> st.dups + 1]
                   ELSE st, a, small, few)
        dup2(st, a, small, few) ==
            dup3(IF few /\ ~LessAt(heap, st.d, st.b - 1, pivot)
                 THEN [st EXCEPT !.b = st.b - 1, !.dups = st.dups + 1]
                 ELSE st, a, small, few)
        dup1(st, a, small, few) ==
            dup2(IF few /\ ~LessAt(heap, st.d, pivot, hi - 1)
                 THEN [d |-> Swap(st.d, st.c, hi - 1), b |-> st.b, c |-> st.c + 1,
                       dups |-> 1]
                 ELSE st, a, small, few)
        met(d3, a, c) ==
            dup1([d |-> d3, b |-> c, c |-> c, dups |-> 0], a,
                 hi - c < 5, hi - c >= 5 /\ hi - c < (hi - lo) \div 4)
        scanned(d2, a) ==
            met(PairSwap(d2, a, hi - 2,
                         { k \in a..(hi - 2) : LessAt(heap, d2, pivot, k) }).d, a,
                a + Cardinality({ k \in a..(hi - 2) : ~LessAt(heap, d2, pivot, k) }))
        sampled(d2) ==
            scanned(d2, FirstFrom(lo + 1, hi - 2,
                                  { k \in (lo + 1)..(hi - 2) : ~LessAt(heap, d2, k, pivot) }))
        ninther3(d1) == medianOfThree(heap, d1, hi - 1, hi - 1 - s, hi - 1 - 2 * s)
        ninther2(d1) == ninther3(medianOfThree(heap, d1, m, m - s, m + s))
        ninther1(d1) == ninther2(medianOfThree(heap, d1, lo, lo + s, lo + 2 * s))
    IN sampled(medianOfThree(heap, IF hi - lo > 40 THEN ninther1(d) ELSE d, lo, m, hi - 1))

\* The pass of quickSort over a slice of at most 12 elements with gap 6,
\* which comes before its insertion sort.
ShellPass(heap, d, a, b) ==
    [k \in 1..Len(d) |->
        IF a + 6 <= k - 1 /\ k - 1 < b /\ LessAt(heap, d, k - 1, k - 7) THEN d[k - 6]
        ELSE IF a <= k - 1 /\ k + 5 < b /\ LessAt(heap, d, k + 5, k - 1) THEN d[k + 6]
        ELSE d[k]]

\* quickSort(data, a, b, maxDepth)
RECURSIVE quickSort(_, _, _, _, _)
quickSort(heap, d, a, b, depth) ==
    LET split(dp) ==
            IF dp.midlo - a < b - dp.midhi
            THEN quickSort(heap, quickSort(heap, dp.d, a, dp.midlo, depth - 1),
                           dp.midhi, b, depth - 1)
            ELSE quickSort(heap, quickSort(heap, dp.d, dp.midhi, b, depth - 1),
                           a, dp.midlo, depth - 1)
    IN Then(d,
       IF b - a > 12
       THEN (IF depth = 0 THEN heapSort(heap, d, a, b) ELSE split(doPivot(heap, d, a, b)))
       ELSE IF b - a > 1 THEN insertionSort(heap, ShellPass(heap, d, a, b), a, b)
       ELSE d)

\* The implementations of sort.Sort a build can link.
Sorters == {"pdqsort", "quickSort"}

\* A variant of the sort that leaves the containers in the order of the
\* batch; C25 does not hold of it.
SortByThumbHeightDesc_Unsorted(sorter, heap, containers) == containers

\* sort.Sort(ByThumbHeightDesc(containers))
SortByThumbHeightDesc(sorter, heap, containers) ==
    IF sorter = "quickSort"
    THEN quickSort(heap, containers, 0, Len(containers), 2 * bitsLen(Len(containers)))
    ELSE IF Len(containers) <= 1 THEN containers
    ELSE pdqsort(heap, containers, 0, Len(containers), bitsLen(Len(containers)), TRUE, TRUE)

\* A variant of SizeStep that adds to the height at every tile, as if each
\* tile began a row; C36 does not hold of it.
SizeStep_AddsEveryTile(st, i, m) ==
    LET th0 == IF i = 1 THEN 0 ELSE st.totalHeight
        tw0 == IF i = 1 THEN m.ThumbWidth ELSE st.totalWidth
        wrap == st.counter = maxPerRow
    IN [totalHeight |-> th0 + m.ThumbHeight,
        totalWidth |-> IF wrap /\ st.rowWidth > tw0 THEN st.rowWidth ELSE tw0,
        rowWidth |-> (IF wrap THEN 0 ELSE st.rowWidth) + m.ThumbWidth,
        counter |-> (IF wrap THEN 0 ELSE st.counter) + 1]

\* A variant of SizeStep that adds nothing to the height at a row boundary;
\* C26 does not hold of it.
SizeStep_FirstRowOnly(st, i, m) ==
    LET th0 == IF i = 1 THEN m.ThumbHeight ELSE st.totalHeight
        tw0 == IF i = 1 THEN m.ThumbWidth ELSE st.totalWidth
        wrap == st.counter = maxPerRow
    IN [totalHeight |-> th0,
        totalWidth |-> IF wrap /\ st.rowWidth > tw0 THEN st.rowWidth ELSE tw0,
        rowWidth |-> (IF wrap THEN 0 ELSE st.rowWidth) + m.ThumbWidth,
        counter |-> (IF wrap THEN 0 ELSE st.counter) + 1]

\* The body of the loop that computes the canvas size, for the i-th
\* container; st is [rowWidth, totalWidth, totalHeight, counter].
SizeStep(st, i, m) ==
    LET th0 == IF i = 1 THEN m.ThumbHeight ELSE st.totalHeight
        tw0 == IF i = 1 THEN m.ThumbWidth ELSE st.totalWidth
        wrap == st.counter = maxPerRow
    IN [totalHeight |-> IF wrap THEN th0 + m.ThumbHeight ELSE th0,
        totalWidth |-> IF wrap /\ st.rowWidth > tw0 THEN st.rowWidth ELSE tw0,
        rowWidth |-> (IF wrap THEN 0 ELSE st.rowWidth) + m.ThumbWidth,
        counter |-> (IF wrap THEN 0 ELSE st.counter) + 1]

RECURSIVE SizeLoop(_, _, _, _, _)
SizeLoop(heap, containers, lo, hi, st) ==
    IF lo > hi THEN st
    ELSE IF lo = hi THEN SizeStep(st, lo, heap[containers[lo]])
    ELSE LET half == SizeLoop(heap, containers, lo, (lo + hi) \div 2, st)
         IN Then(half, SizeLoop(heap, containers, ((lo + hi) \div 2) + 1, hi, half))

\* The canvas size: the loop, then the last row's width.
CanvasSize(heap, containers) ==
    LET st == SizeLoop(heap, containers, 1, Len(containers),
                       [rowWidth |-> 0, totalWidth |-> 0, totalHeight |-> 0, counter |-> 0])
    IN [totalWidth |-> IF st.rowWidth > st.totalWidth THEN st.rowWidth ELSE st.totalWidth,
        totalHeight |-> st.totalHeight]

\* The body of the loop that places the tiles, for the i-th container p;
\* st is [x, y, col, rowHeight, heap, tiles], tiles holding what has been
\* drawn so far: the source pixels and the rectangle they were copied to,
\* clipped to the canvas as draw.Draw does.
Min(a, b) == IF a < b THEN a ELSE b

\* A variant of DrawStep that advances y by the height of the first tile of
\* the row that begins, not of the row being left; C27 does not hold of it.
DrawStep_AdvancesByNewRow(st, i, p, size) ==
    LET m == st.heap[p]
        wrap == st.col = maxPerRow
        x1 == IF wrap THEN 0 ELSE st.x
        y1 == IF wrap THEN st.y + m.ThumbHeight ELSE st.y
    IN [x |-> x1 + m.ThumbWidth, y |-> y1,
        col |-> (IF wrap THEN 0 ELSE st.col) + 1,
        rowHeight |-> m.ThumbHeight,
        heap |-> [st.heap EXCEPT ![p] = [@ EXCEPT !.ThumbXOffset = x1,
                                                 !.ThumbYOffset = y1,
                                                 !.ThumbTotalWidth = size.totalWidth,
                                                 !.ThumbTotalHeight = size.totalHeight]],
        tiles |-> Append(st.tiles,
                         << Key(m.Path), x1, y1,
                            Min(x1 + m.ThumbWidth, size.totalWidth),
                            Min(y1 + m.ThumbHeight, size.totalHeight) >>)]

DrawStep(st, i, p, size) ==
    LET m == st.heap[p]
        rh0 == IF i = 1 THEN m.ThumbHeight ELSE st.rowHeight
        wrap == st.col = maxPerRow
        x1 == IF wrap THEN 0 ELSE st.x
        y1 == IF wrap THEN st.y + rh0 ELSE st.y
    IN [x |-> x1 + m.ThumbWidth, y |-> y1,
        col |-> (IF wrap THEN 0 ELSE st.col) + 1,
        rowHeight |-> IF wrap THEN m.ThumbHeight ELSE rh0,
        heap |-> [st.heap EXCEPT ![p] = [@ EXCEPT !.ThumbXOffset = x1,
                                                 !.ThumbYOffset = y1,
                                                 !.ThumbTotalWidth = size.totalWidth,
                                                 !.ThumbTotalHeight = size.totalHeight]],
        tiles |-> Append(st.tiles,
                         << Key(m.Path), x1, y1,
                            Min(x1 + m.ThumbWidth, size.totalWidth),
                            Min(y1 + m.ThumbHeight, size.totalHeight) >>)]

RECURSIVE DrawLoop(_, _, _, _, _)
DrawLoop(containers, lo, hi, st, size) ==
    IF lo > hi THEN st
    ELSE IF lo = hi THEN DrawStep(st, lo, containers[lo], size)
    ELSE LET half == DrawLoop(containers, lo, (lo + hi) \div 2, st, size)
         IN Then(half, DrawLoop(containers, ((lo + hi) \div 2) + 1, hi, half, size))

\* png.Encode / jpeg.Encode of the canvas: a signature for the format, the
\* canvas size, and what was drawn.  png.Encode refuses a canvas of no
\* width or no height, jpeg.Encode one of 65536 pixels or more a side; the
\* buffer they write to takes every write.
Encode(format, size, tiles) ==
    IF format = "png" /\ (size.totalWidth <= 0 \/ size.totalHeight <= 0)
    THEN [err |-> "invalid image size", b |-> <<>>]
    ELSE IF format = "jpg" /\ (size.totalWidth >= 65536 \/ size.totalHeight >= 65536)
    THEN [err |-> "image is too large to encode", b |-> <<>>]
    ELSE [err |-> "nil",
          b |-> (IF format = "png" THEN << <<137, size.totalWidth, size.totalHeight>> >>
                 ELSE << <<255, jpegQuality, size.totalWidth, size.totalHeight>> >>)
                    \o tiles]

\* A variant of the switch on the format that has no default case and
\* encodes every format; C21 does not hold of it.
Supported_Any(format) == TRUE

\* The cases of the switch on the format.
Supported(format) == format \in {"png", "jpg"}

GenerateThumbnail(io, heap, media, dirFiles, format, fault) ==
    LET drawn(dec, size, dr) ==
            IF ~Supported(format)
            THEN [err |-> "unsupported format", heap |-> dr.heap, io |-> dec.io, b |-> <<>>]
            ELSE IF Encode(format, size, dr.tiles).err # "nil"
            THEN [err |-> "encoding thumbnail", heap |-> dr.heap, io |-> dec.io, b |-> <<>>]
            ELSE [err |-> "nil", heap |-> dr.heap, io |-> dec.io,
                  b |-> Encode(format, size, dr.tiles).b]
        sized(dec, containers, size) ==
            drawn(dec, size,
                  DrawLoop(containers, 1, Len(containers),
                           [x |-> 0, y |-> 0, col |-> 0, rowHeight |-> 0,
                            heap |-> dec.heap, tiles |-> <<>>], size))
        sorted(dec, containers) ==
            sized(dec, containers, CanvasSize(dec.heap, containers))
        decoded(dec) ==
            IF dec.err # "nil"
            THEN [err |-> dec.err, heap |-> dec.heap, io |-> dec.io, b |-> <<>>]
            ELSE sorted(dec, SortByThumbHeightDesc(dec.io.sort, dec.heap, media))
    IN decoded(DecodeLoop(media, 1, Len(media),
                          [err |-> "nil", heap |-> heap, io |-> io], dirFiles, fault))

(***************************************************************************)
(* crc32sum                                                                *)
(***************************************************************************)
\* A uint32 is kept as its four bytes, the highest first.
Uint32(n) == <<(n \div 16777216) % 256, (n \div 65536) % 256, (n \div 256) % 256, n % 256>>

\* fmt.Sprintf("%x", n) of a uint32: lowercase digits, no leading zeros.
Hex(n) ==
    LET nibbles == [i \in 1..8 |-> IF i % 2 = 1 THEN n[(i + 1) \div 2] \div 16
                                   ELSE n[i \div 2] % 16]
        digits == <<"0", "1", "2", "3", "4", "5", "6", "7",
                    "8", "9", "a", "b", "c", "d", "e", "f">>
        first == IF \A i \in 1..8 : nibbles[i] = 0 THEN 8
                 ELSE CHOOSE i \in 1..8 : nibbles[i] # 0 /\ \A j \in 1..(i - 1) : nibbles[j] = 0
    IN [i \in 1..(9 - first) |-> digits[nibbles[first + i - 1] + 1]]

\* a ^ b of two bytes, bit by bit, and tabulated.
XorTable ==
    LET bit(a, b, k) == (((a \div (2 ^ k)) + (b \div (2 ^ k))) % 2) * (2 ^ k)
    IN [a \in 0..255 |-> [b \in 0..255 |->
           bit(a, b, 0) + bit(a, b, 1) + bit(a, b, 2) + bit(a, b, 3)
               + bit(a, b, 4) + bit(a, b, 5) + bit(a, b, 6) + bit(a, b, 7)]]

XorByte(a, b) == XorTable[a][b]

Xor32(x, y) == [i \in 1..4 |-> XorByte(x[i], y[i])]

Not32(x) == [i \in 1..4 |-> 255 - x[i]]

ShiftRight1(x) ==
    <<x[1] \div 2, (x[1] % 2) * 128 + x[2] \div 2,
      (x[2] % 2) * 128 + x[3] \div 2, (x[3] % 2) * 128 + x[4] \div 2>>

\* crc32.IEEE, the reversed polynomial 0xedb88320.
IEEE == <<237, 184, 131, 32>>

\* simplePopulateTable: the entry of one byte, after j of its eight steps.
RECURSIVE simplePopulateEntry(_, _)
simplePopulateEntry(crc, j) ==
    IF j = 8 THEN crc
    ELSE LET next == IF crc[4] % 2 = 1 THEN Xor32(ShiftRight1(crc), IEEE)
                     ELSE ShiftRight1(crc)
         IN Then(next, simplePopulateEntry(next, j + 1))

\* crc32.IEEETable
IEEETable == [i \in 0..255 |-> simplePopulateEntry(Uint32(i), 0)]

\* The loop of simpleUpdate over p[lo..hi]: for each byte v,
\* crc = tab[byte(crc)^v] ^ (crc >> 8).
RECURSIVE simpleUpdateLoop(_, _, _, _)
simpleUpdateLoop(p, lo, hi, crc) ==
    IF lo > hi THEN crc
    ELSE IF lo = hi THEN Xor32(IEEETable[XorByte(crc[4], p[lo])], <<0, crc[1], crc[2], crc[3]>>)
    ELSE LET half == simpleUpdateLoop(p, lo, (lo + hi) \div 2, crc)
         IN Then(half, simpleUpdateLoop(p, ((lo + hi) \div 2) + 1, hi, half))

\* crc32.ChecksumIEEE(p): the digest of NewIEEE after Write(p).
ChecksumIEEE(p) == Not32(simpleUpdateLoop(p, 1, Len(p), Not32(Uint32(0))))

\* The bytes of an encoded image: every number of the encoding on two
\* bytes, the higher first.
RECURSIVE Bytes(_, _, _)
Bytes(content, lo, hi) ==
    IF lo > hi THEN <<>>
    ELSE IF lo = hi
         THEN LET c == content[lo]
              IN [i \in 1..(2 * Len(c)) |-> IF i % 2 = 1 THEN (c[(i + 1) \div 2] \div 256) % 256
                                            ELSE c[i \div 2] % 256]
    ELSE Bytes(content, lo, (lo + hi) \div 2) \o Bytes(content, ((lo + hi) \div 2) + 1, hi)

(***************************************************************************)
(* GenerateThumbnails                                                      *)
(***************************************************************************)
\* A variant of the batching loop that stops when fewer than a full batch
\* is left, and so drops a short last batch; C17 does not hold of it.
SplitBatches_DropsTail(media, i, batches) ==
    batches \o [k \in 1..((Len(media) - i) \div (maxPerRow * maxRows)) |->
                  SubSeq(media, i + (k - 1) * maxPerRow * maxRows + 1,
                         i + k * maxPerRow * maxRows)]

\* The batching loop; i is the 0-based start of the next batch.
RECURSIVE SplitBatches(_, _, _)
SplitBatches(media, i, batches) ==
    IF ~(i < Len(media)) THEN batches
    ELSE LET end == IF i + maxPerRow * maxRows > Len(media) THEN Len(media)
                    ELSE i + maxPerRow * maxRows
         IN SplitBatches(media, i + maxPerRow * maxRows,
                         Append(batches, SubSeq(media, i + 1, end)))

\* The batches GenerateThumbnails forms of each group.
BatchesOf(mediaGrouped) ==
    [format \in DOMAIN mediaGrouped |-> SplitBatches(mediaGrouped[format], 0, <<>>)]

\* The orders in which the records of the files of these units can stand in
\* a manifest: the files a run takes in stand in the order of the scan,
\* after the records of the earlier runs.
RECURSIVE Recorded(_, _)
Recorded(units, listed) ==
    {listed} \cup
        UNION { Recorded(units \ U,
                         listed \o ScanDirectory(ReadDir(UNION U, AbsentFile, NoSheets),
                                                 NoFault).files) :
                    U \in (SUBSET units) \ {{}} }

\* The sheets GenerateThumbnail encodes for the batches of such records.
SheetsOf(listing) ==
    LET heap == [i \in 1..Len(listing) |-> NewMedia(listing[i])]
        dirFiles == { listing[i] : i \in 1..Len(listing) }
        batches == BatchesOf(groupByType(heap))
    IN UNION { { GenerateThumbnail(NewIO(NoSheets, sorter), heap, batches[format][k],
                                   dirFiles, format, NoFault).b :
                     k \in 1..Len(batches[format]), sorter \in Sorters } :
                 format \in DOMAIN batches }

\* The checksums of the sheets of the directories of a few files and of
\* bulk files, computed once.
Checksums ==
    [b \in UNION { SheetsOf(listing) :
                      listing \in Recorded(Units, <<>>) \cup Recorded(BulkUnits, <<>>) } |->
        Hex(ChecksumIEEE(Bytes(b, 1, Len(b))))]

\* hash.Write(content), then fmt.Sprintf("%x", hash.Sum32())
crc32sum(content) ==
    LET cached(sums) ==
            IF content \in DOMAIN sums THEN sums[content]
            ELSE Hex(ChecksumIEEE(Bytes(content, 1, Len(content))))
    IN cached(Checksums)

\* A variant of ScanBatch that never notices a record whose thumb path
\* differs from the first record's; C2 does not hold of it.
ScanBatch_IgnoresMismatch(heap, batchFiles) ==
    [allHaveThumbs |-> \A j \in 1..Len(batchFiles) :
                           heap[batchFiles[j]].ThumbPath # EmptyString,
     allHaveSameThumb |-> TRUE]

\* The scan of one batch.  It breaks at the first record that has no
\* thumbnail (allHaveThumbs = false) or, having one, differs from the first
\* record's (allHaveSameThumb = false).
ScanBatch(heap, batchFiles) ==
    LET noThumb(j) == heap[batchFiles[j]].ThumbPath = EmptyString
        differs(j) == heap[batchFiles[j]].ThumbPath # heap[batchFiles[1]].ThumbPath
        breaks == { j \in 1..Len(batchFiles) : noThumb(j) \/ differs(j) }
        first == CHOOSE j \in breaks : \A k \in breaks : j <= k
    IN IF breaks = {} THEN [allHaveThumbs |-> TRUE, allHaveSameThumb |-> TRUE]
       ELSE IF noThumb(first) THEN [allHaveThumbs |-> FALSE, allHaveSameThumb |-> TRUE]
       ELSE [allHaveThumbs |-> TRUE, allHaveSameThumb |-> FALSE]

\* A variant of the filter that looks at the first record of the batch
\* only; C22 does not hold of it.
Skipped_FirstRecordOnly(heap, batchFiles, force) ==
    ~force /\ heap[batchFiles[1]].ThumbPath # EmptyString

\* TRUE when the batch is set to nil and so left alone.
Skipped(heap, batchFiles, force) ==
    /\ ~force
    /\ LET r == ScanBatch(heap, batchFiles)
       IN r.allHaveThumbs /\ r.allHaveSameThumb

\* A variant of the thumb path whose checksum is not that of the sheet's
\* bytes; C10 does not hold of it.
ThumbPathOf_Unversioned(thumbPath, b) == <<thumbPath, "?crc=", crc32sum(<<>>)>>

\* thumbPath + "?crc=" + crc32sum(b)
ThumbPathOf(thumbPath, b) == <<thumbPath, "?crc=", crc32sum(b)>>

\* A variant of the loop that stamps the first record of the batch only;
\* C19 does not hold of it.
UpdateThumbPath_FirstOnly(heap, batchFiles, value) ==
    [p \in 1..Len(heap) |->
        IF p = batchFiles[1] THEN [heap[p] EXCEPT !.ThumbPath = value] ELSE heap[p]]

\* The loop that updates the thumb path of each record of the batch.
UpdateThumbPath(heap, batchFiles, value) ==
    LET inBatch == { batchFiles[j] : j \in 1..Len(batchFiles) }
    IN [p \in 1..Len(heap) |->
           IF p \in inBatch THEN [heap[p] EXCEPT !.ThumbPath = value] ELSE heap[p]]

\* The generation loop; `batch` is the 0-based batch index, a nil batch is
\* the empty sequence.
RECURSIVE GenerateLoop(_, _, _, _, _, _, _)

\* A variant of the loop that uploads the sheet before writing it to disk;
\* C24 does not hold of it.
GenerateLoop_UploadsFirst(io, heap, batches, batch, dirFiles, format, fault) ==
    LET batchFiles == batches[batch + 1]
        thumbPath == SheetName(batch, format)
        written(heap1, wr) ==
            IF wr.err # "nil"
            THEN [err |-> "writing thumbnail", heap |-> heap1, io |-> wr.io]
            ELSE GenerateLoop(wr.io, heap1, batches, batch + 1, dirFiles, format, fault)
        uploaded(b, heap1, up) ==
            IF up.err # "nil"
            THEN [err |-> "uploading thumbnail", heap |-> heap1, io |-> up.io]
            ELSE written(heap1, WriteSheet(up.io, thumbPath, b, fault))
        updated(g, heap1) ==
            uploaded(g.b, heap1, Upload(g.io, thumbPath, g.b, fault))
        generated(g) ==
            IF g.err # "nil" THEN [err |-> "generating thumbnail", heap |-> g.heap, io |-> g.io]
            ELSE updated(g, UpdateThumbPath(g.heap, batchFiles, ThumbPathOf(thumbPath, g.b)))
    IN IF batch >= Len(batches) THEN [err |-> "nil", heap |-> heap, io |-> io]
       ELSE IF batchFiles = <<>>
       THEN GenerateLoop(io, heap, batches, batch + 1, dirFiles, format, fault)
       ELSE generated(GenerateThumbnail(io, heap, batchFiles, dirFiles, format, fault))

GenerateLoop(io, heap, batches, batch, dirFiles, format, fault) ==
    LET batchFiles == batches[batch + 1]
        thumbPath == SheetName(batch, format)
        uploaded(heap1, up) ==
            IF up.err # "nil"
            THEN [err |-> "uploading thumbnail", heap |-> heap1, io |-> up.io]
            ELSE GenerateLoop(up.io, heap1, batches, batch + 1, dirFiles, format, fault)
        written(b, heap1, wr) ==
            IF wr.err # "nil"
            THEN [err |-> "writing thumbnail", heap |-> heap1, io |-> wr.io]
            ELSE uploaded(heap1, Upload(wr.io, thumbPath, b, fault))
        updated(g, heap1) ==
            written(g.b, heap1, WriteSheet(g.io, thumbPath, g.b, fault))
        generated(g) ==
            IF g.err # "nil" THEN [err |-> "generating thumbnail", heap |-> g.heap, io |-> g.io]
            ELSE updated(g, UpdateThumbPath(g.heap, batchFiles, ThumbPathOf(thumbPath, g.b)))
    IN IF batch >= Len(batches) THEN [err |-> "nil", heap |-> heap, io |-> io]
       ELSE IF batchFiles = <<>>
       THEN GenerateLoop(io, heap, batches, batch + 1, dirFiles, format, fault)
       ELSE generated(GenerateThumbnail(io, heap, batchFiles, dirFiles, format, fault))

\* The batches, the filter that sets the clean ones to nil, and the
\* generation loop; the decision taken for each batch is noted in io.plan.
GenerateThumbnails(io, heap, media, dirFiles, format, force, fault) ==
    LET filtered(batches) ==
            [k \in 1..Len(batches) |->
                IF Skipped(heap, batches[k], force) THEN <<>> ELSE batches[k]]
        decided(kept) ==
            [k \in 1..Len(kept) |->
                [format |-> format, batch |-> k - 1, skipped |-> kept[k] = <<>>]]
        planned(kept) ==
            GenerateLoop([io EXCEPT !.plan = @ \o decided(kept)], heap, kept, 0,
                         dirFiles, format, fault)
    IN planned(filtered(SplitBatches(media, 0, <<>>)))

(***************************************************************************)
(* ProcessDirectory                                                        *)
(***************************************************************************)
\* The loop over the groups, visited in the order the map yields them.
RECURSIVE GroupLoop(_, _, _, _, _, _, _, _)
GroupLoop(io, heap, mediaGrouped, order, i, dirFiles, force, fault) ==
    LET generated(g) ==
            IF g.err # "nil"
            THEN [err |-> "generating thumbnails", heap |-> g.heap, io |-> g.io]
            ELSE GroupLoop(g.io, g.heap, mediaGrouped, order, i + 1, dirFiles, force, fault)
    IN IF i > Len(order) THEN [err |-> "nil", heap |-> heap, io |-> io]
       ELSE generated(GenerateThumbnails(io, heap, mediaGrouped[order[i]], dirFiles,
                                         order[i], force, fault))

\* A map with no groups.
NoGroups == [format \in {} |-> <<>>]

\* What a run observed and did; NoRun before the first run.
NoRun ==
    [ok |-> FALSE, err |-> "none", force |-> FALSE, sorter |-> "pdqsort", dirFiles |-> {},
     diffed |-> FALSE,
     loaded |-> <<>>, scanned |-> <<>>, toAdd |-> <<>>, toDelete |-> <<>>,
     reconciled |-> <<>>, grouped |-> NoGroups, batches |-> NoGroups,
     final |-> <<>>, plan |-> <<>>, events |-> <<>>]

\* A variant of the end of ProcessDirectory that saves the manifest even
\* when GenerateThumbnails returned an error; C3 does not hold of it.
Persist_Always(f, gen, fault) ==
    [err |-> IF gen.err # "nil" THEN "generating thumbnails"
             ELSE IF SaveThumbsFile(f, gen.heap, fault).err # "nil" THEN "saving media"
             ELSE "nil",
     file |-> SaveThumbsFile(f, gen.heap, fault).file]

\* The end of ProcessDirectory: the manifest is saved when every group has
\* been generated, and left alone when GenerateThumbnails returned an error;
\* an error of SaveThumbsFile is returned as "saving media".
Persist(f, gen, fault) ==
    IF gen.err # "nil" THEN [err |-> "generating thumbnails", file |-> f]
    ELSE IF SaveThumbsFile(f, gen.heap, fault).err # "nil"
    THEN [err |-> "saving media", file |-> SaveThumbsFile(f, gen.heap, fault).file]
    ELSE [err |-> "nil", file |-> SaveThumbsFile(f, gen.heap, fault).file]

\* The calls of a run, with the write of the manifest when there was one.
EventsOf(gen, saved) ==
    IF gen.err # "nil" \/ Len(gen.heap) = 0 THEN gen.io.events
    ELSE Append(gen.io.events, Event("save", thumbsFileName, <<>>, saved.err = "nil"))

\* The outcome of one run: the manifest and the sheets it leaves on disk,
\* and what the run observed and did.
ProcessDirectory(dirFiles, f, sh, force, mapOrder, sorter, fault) ==
    LET obs(ld) == [NoRun EXCEPT !.force = force, !.sorter = sorter, !.dirFiles = dirFiles,
                                 !.loaded = ld.media]
        seen(ld, sc, d) == [obs(ld) EXCEPT !.diffed = TRUE, !.scanned = sc.files,
                                           !.toAdd = d.toAdd, !.toDelete = d.toDelete]
        saved(ld, sc, d, un, mediaGrouped, gen, sv) ==
            [thumbsFile |-> sv.file, sheets |-> gen.io.sheets,
             remote |-> gen.io.remote,
             run |-> [seen(ld, sc, d) EXCEPT
                         !.ok = (sv.err = "nil"),
                         !.err = sv.err,
                         !.reconciled = un.media, !.grouped = mediaGrouped,
                         !.batches = BatchesOf(mediaGrouped), !.final = gen.heap,
                         !.plan = gen.io.plan, !.events = EventsOf(gen, sv)]]
        generated(ld, sc, d, un, mediaGrouped, gen) ==
            saved(ld, sc, d, un, mediaGrouped, gen, Persist(f, gen, fault))
        grouped(ld, sc, d, un, mediaGrouped) ==
            generated(ld, sc, d, un, mediaGrouped,
                      GroupLoop(un.io, un.media, mediaGrouped,
                                SelectSeq(mapOrder, LAMBDA format : format \in DOMAIN mediaGrouped),
                                1, dirFiles, force, fault))
        uploaded(ld, sc, d, un) ==
            IF un.err # "nil"
            THEN [thumbsFile |-> f, sheets |-> un.io.sheets, remote |-> un.io.remote,
                  run |-> [seen(ld, sc, d) EXCEPT !.err = "uploading new media",
                                                  !.events = un.io.events]]
            ELSE grouped(ld, sc, d, un, groupByType(un.media))
        scanned(ld, io1, sc) ==
            IF sc.err # "nil"
            THEN [thumbsFile |-> f, sheets |-> sh, remote |-> NewIO(sh, sorter).remote,
                  run |-> [obs(ld) EXCEPT !.err = "scanning directory",
                                          !.events = io1.events]]
            ELSE uploaded(ld, sc, diff(ld.media, sc.files),
                          UploadNewMedia(io1, ld.media, sc.files, dirFiles, fault))
        scan(ld, sc) ==
            scanned(ld, Log(Log(NewIO(sh, sorter), Event("load", thumbsFileName, <<>>, TRUE)),
                            Event("scan", thumbsFileName, <<>>, sc.err = "nil")), sc)
        loaded(ld) ==
            IF ld.err \notin {"nil", "ErrThumbYamlNotFound"}
            THEN [thumbsFile |-> f, sheets |-> sh, remote |-> NewIO(sh, sorter).remote,
                  run |-> [obs(ld) EXCEPT
                              !.err = "loading thumbs file",
                              !.events = <<Event("load", thumbsFileName, <<>>, FALSE)>>]]
            ELSE scan(ld, ScanDirectory(ReadDir(dirFiles, f, sh), fault))
    IN loaded(LoadThumbsFile(f))

(***************************************************************************)
(* The state machine.                                                      *)
(***************************************************************************)
\* The directories that can be built from a set of units.
Dirs(units) == { UNION U : U \in SUBSET units }

\* The implementations of sort.Sort that can tell a run on these files from
\* another.  The slices sorted are batches of one group; both
\* implementations leave a slice of fewer than 7 containers, and a slice of
\* containers of one height, in the order insertion sort leaves it in.
SortersOf(dirFiles) ==
    LET heights(format) ==
            { Thumbnail(maxThumbSize, maxThumbSize, ImageWidth(n), ImageHeight(n)).h :
                  n \in { o \in dirFiles : TypeOf(o) = format } }
        same(format) ==
            \/ Cardinality({ n \in dirFiles : TypeOf(n) = format }) < 7
            \/ Cardinality(heights(format)) <= 1
    IN IF same("jpg") /\ same("png") THEN {"pdqsort"} ELSE Sorters

\* The orders in which a map with these keys can be iterated.
MapOrders(dirFiles) ==
    LET keys == { TypeOf(n) : n \in dirFiles }
    IN IF {"jpg", "png"} \subseteq keys THEN {<<"jpg", "png">>, <<"png", "jpg">>}
       ELSE {<<"jpg", "png">>}

Start(dirFiles) ==
    /\ sources = dirFiles
    /\ thumbsFile = AbsentFile
    /\ sheets = NoSheets
    /\ lastRun = NoRun
    /\ runs = 0
    /\ changes = 0
    /\ anyFailed = FALSE

\* One run of ProcessDirectory on the directory.
Execute(force, mapOrder, sorter, fault) ==
    /\ \E r \in {ProcessDirectory(sources, thumbsFile, sheets, force, mapOrder, sorter,
                                 fault)} :
          /\ thumbsFile' = r.thumbsFile
          /\ sheets' = r.sheets
          /\ lastRun' = r.run
          /\ anyFailed' = (anyFailed \/ ~r.run.ok)
    /\ runs' = runs + 1
    /\ UNCHANGED <<sources, changes>>

Run(force, mapOrder, sorter, fault) ==
    /\ runs < MaxRuns
    /\ Execute(force, mapOrder, sorter, fault)

\* The environment copies source files into the directory.
AddFiles(u) ==
    /\ changes < MaxChanges
    /\ u \cap sources = {}
    /\ sources' = sources \cup u
    /\ changes' = changes + 1
    /\ UNCHANGED <<thumbsFile, sheets, lastRun, runs, anyFailed>>

\* The environment removes source files from the directory.
RemoveFiles(u) ==
    /\ changes < MaxChanges
    /\ u \subseteq sources
    /\ sources' = sources \ u
    /\ changes' = changes + 1
    /\ UNCHANGED <<thumbsFile, sheets, lastRun, runs, anyFailed>>

\* A directory of a few files.
Init == \E dirFiles \in Dirs(Units) : Start(dirFiles)

Next ==
    \/ \E mapOrder \in MapOrders(sources), sorter \in SortersOf(sources) :
           \E force \in BOOLEAN, fault \in Faults :
               Run(force, mapOrder, sorter, fault)
    \/ \E u \in Units : AddFiles(u)
    \/ \E u \in Units : RemoveFiles(u)

Spec == Init /\ [][Next]_vars

\* A directory whose groups span several batches.
InitBulk == \E dirFiles \in Dirs(BulkUnits) : Start(dirFiles)

\* The faults tried on them; a failing write of the manifest is tried on
\* the directories of a few files.
NextBulk ==
    \/ \E mapOrder \in MapOrders(sources), sorter \in SortersOf(sources) :
           \E force \in BOOLEAN, fault \in { f \in Faults : f.op \notin {"save", "savecut"} } :
               Run(force, mapOrder, sorter, fault)
    \/ \E u \in BulkUnits : AddFiles(u)
    \/ \E u \in BulkUnits : RemoveFiles(u)

SpecBulk == InitBulk /\ [][NextBulk]_vars

\* A directory of a few files that is processed up to MaxReruns times, every
\* external call succeeding, and whose manifest the environment may damage:
\* the file is made unreadable, or its bytes stop being a YAML list.
EnvUnits == { {FileS}, {FileA}, {FileP} }

Rerun(force, mapOrder, sorter) ==
    /\ runs < MaxReruns
    /\ Execute(force, mapOrder, sorter, NoFault)

DamageManifest(state) ==
    /\ changes < MaxChanges
    /\ thumbsFile.state = "ok"
    /\ thumbsFile' = [thumbsFile EXCEPT !.state = state]
    /\ changes' = changes + 1
    /\ UNCHANGED <<sources, sheets, lastRun, runs, anyFailed>>

InitEnv == \E dirFiles \in Dirs(EnvUnits) : Start(dirFiles)

NextEnv ==
    \/ \E mapOrder \in MapOrders(sources), sorter \in SortersOf(sources) :
           \E force \in BOOLEAN :
               Rerun(force, mapOrder, sorter)
    \/ \E u \in EnvUnits : AddFiles(u)
    \/ \E u \in EnvUnits : RemoveFiles(u)
    \/ \E state \in {"unreadable", "malformed"} : DamageManifest(state)

SpecEnv == InitEnv /\ [][NextEnv]_vars

SeqsUpTo(S, n) == UNION { [1..k -> S] : k \in 0..n }

\* SaveThumbsFile applied to every short sequence of records, then
\* LoadThumbsFile applied to the file it leaves.  A record is one that was
\* never generated (every field but the path zero) or one that was, at the
\* left or top edge of its sheet (offset 0) or inside it, with or without
\* the blurhash fields another tool adds to the manifest.
SavedRecords ==
    { [ Path |-> path,
        Width |-> IF gen THEN ImageWidth(path) ELSE 0,
        Height |-> IF gen THEN ImageHeight(path) ELSE 0,
        ThumbPath |-> IF gen THEN <<SheetName(0, TypeOf(path)), "?crc=", Hex(Uint32(x + y))>>
                      ELSE EmptyString,
        ThumbXOffset |-> x, ThumbYOffset |-> y,
        ThumbWidth |-> IF gen THEN 100 ELSE 0,
        ThumbHeight |-> IF gen THEN 200 ELSE 0,
        ThumbTotalWidth |-> IF gen THEN x + 100 ELSE 0,
        ThumbTotalHeight |-> IF gen THEN y + 200 ELSE 0,
        Blurhash |-> blur, BlurhashImageBase64 |-> blur ] :
      path \in {FileA, FileP}, gen \in BOOLEAN, x \in {0, maxThumbSize},
      y \in {0, maxThumbSize}, blur \in {"", "LEHV6nWB"} }

InitRoundTrip ==
    \E media \in SeqsUpTo(SavedRecords, MaxSaveLen),
       f \in {AbsentFile, SaveThumbsFile(AbsentFile, <<NewMedia(FileS)>>, NoFault).file} :
        /\ sources = {}
        /\ thumbsFile = f
        /\ sheets = NoSheets
        /\ runs = 0
        /\ changes = 0
        /\ anyFailed = FALSE
        /\ lastRun = [NoRun EXCEPT !.final = media]

\* err := SaveThumbsFile(thumbsFile, media)
SaveRecords ==
    /\ runs = 0
    /\ \E fault \in {NoFault} \cup SaveFaults :
          \E sv \in {SaveThumbsFile(thumbsFile, lastRun.final, fault)} :
             /\ thumbsFile' = sv.file
             /\ anyFailed' = (sv.err # "nil")
    /\ runs' = 1
    /\ UNCHANGED <<sources, sheets, lastRun, changes>>

\* media, err := LoadThumbsFile(thumbsFile)
LoadRecords ==
    /\ runs = 1
    /\ \E ld \in {LoadThumbsFile(thumbsFile)} :
          lastRun' = [lastRun EXCEPT !.err = ld.err, !.loaded = ld.media]
    /\ runs' = 2
    /\ UNCHANGED <<sources, thumbsFile, sheets, changes, anyFailed>>

NextRoundTrip == SaveRecords \/ LoadRecords

SpecRoundTrip == InitRoundTrip /\ [][NextRoundTrip]_vars

\* The batching of GenerateThumbnails applied to a group of every length up
\* to MaxGroupLen, the group being given as the positions of its records.
InitBatch ==
    \E n \in 0..MaxGroupLen, format \in {"jpg", "png"} :
        /\ sources = {}
        /\ thumbsFile = AbsentFile
        /\ sheets = NoSheets
        /\ runs = 0
        /\ changes = 0
        /\ anyFailed = FALSE
        /\ lastRun = [NoRun EXCEPT !.grouped = [f \in {format} |-> [i \in 1..n |-> i]]]

ApplySplit ==
    /\ DOMAIN lastRun.batches = {}
    /\ lastRun' = [lastRun EXCEPT !.batches = BatchesOf(lastRun.grouped)]
    /\ UNCHANGED <<sources, thumbsFile, sheets, runs, changes, anyFailed>>

NextBatch == ApplySplit

SpecBatch == InitBatch /\ [][NextBatch]_vars

\* groupByType, and the batching of its groups, applied to every short
\* sequence of records of .jpg, .jpeg and .png files.
FileJ == Name("", BulkSize + 2, "nfc", "jpeg")

GroupNames == {FileS, FileA, FileJ, FileP}

InitGroup ==
    \E paths \in SeqsUpTo(GroupNames, MaxGroupNames) :
        /\ sources = {}
        /\ thumbsFile = AbsentFile
        /\ sheets = NoSheets
        /\ runs = 0
        /\ changes = 0
        /\ anyFailed = FALSE
        /\ lastRun = [NoRun EXCEPT
                         !.reconciled = [i \in 1..Len(paths) |-> NewMedia(paths[i])]]

ApplyGroup ==
    /\ lastRun.err = "none"
    /\ \E mediaGrouped \in {groupByType(lastRun.reconciled)} :
          lastRun' = [lastRun EXCEPT !.err = "nil", !.grouped = mediaGrouped,
                                     !.batches = BatchesOf(mediaGrouped)]
    /\ UNCHANGED <<sources, thumbsFile, sheets, runs, changes, anyFailed>>

NextGroup == ApplyGroup

SpecGroup == InitGroup /\ [][NextGroup]_vars

\* GenerateThumbnails applied to one batch of tile files and a format.  The
\* batch is one of: up to MaxTiles records already in the order the sort
\* wants (portrait, then landscape, then small), which spans several rows;
\* up to 12 records in the opposite order, which the sort reverses by
\* insertion; more than 12 records out of order, which sort.Sort partitions
\* and where the two generations of sort.Sort leave tiles of one height in
\* different orders; and every sequence of up to MaxUnsorted records.  The
\* short batches are also tried with the other formats, with force, and with
\* records that carry the thumb path of an earlier generation.
KindsInOrder(a, b, c) ==
    [p \in 1..(a + b + c) |-> IF p <= a THEN 0 ELSE IF p <= a + b THEN 1 ELSE 2]

Reversed(s) == [p \in 1..Len(s) |-> s[Len(s) + 1 - p]]

\* n records out of order: one small tile before portraits, landscapes
\* before one portrait, portraits and landscapes in turn, the three kinds
\* in turn.
Shuffled(n, shape) ==
    [p \in 1..n |->
        IF shape = "smallFirst" THEN (IF p = 1 THEN 2 ELSE 0)
        ELSE IF shape = "tallLast" THEN (IF p = n THEN 0 ELSE 1)
        ELSE IF shape = "inTurn" THEN (p + 1) % 2
        ELSE p % 3]

TileBatches ==
    { KindsInOrder(a, b, c) :
          a \in 0..MaxTiles, b \in 0..MaxTiles, c \in 0..MaxTiles }
        \cup { Reversed(KindsInOrder(t[1], t[2], t[3])) :
                  t \in { u \in (0..12) \X (0..12) \X (0..12) : u[1] + u[2] + u[3] <= 12 } }
        \cup { Shuffled(n, shape) :
                  n \in 13..MaxTiles,
                  shape \in {"smallFirst", "tallLast", "inTurn", "threeInTurn"} }
        \cup SeqsUpTo({0, 1, 2}, MaxUnsorted)

InitGenerate ==
    \E kinds \in TileBatches, format \in {"png", "jpg", "gif"}, force \in BOOLEAN,
       prior \in BOOLEAN :
        /\ Len(kinds) >= 1
        /\ Len(kinds) <= IF format = "png" /\ ~force /\ ~prior THEN MaxTiles
                         ELSE MaxUnsorted
        /\ sources = { Tile(p, kinds[p]) : p \in 1..Len(kinds) }
        /\ thumbsFile = AbsentFile
        /\ sheets = NoSheets
        /\ runs = 0
        /\ changes = 0
        /\ anyFailed = FALSE
        /\ lastRun =
              [NoRun EXCEPT
                  !.force = force,
                  !.dirFiles = { Tile(p, kinds[p]) : p \in 1..Len(kinds) },
                  !.reconciled =
                      [p \in 1..Len(kinds) |->
                          [NewMedia(Tile(p, kinds[p])) EXCEPT
                              !.ThumbPath = IF prior
                                            THEN <<SheetName(0, format), "?crc=", Hex(Uint32(0))>>
                                            ELSE EmptyString]],
                  !.grouped = [f \in {format} |-> [p \in 1..Len(kinds) |-> p]]]

ApplyGenerate ==
    /\ lastRun.err = "none"
    /\ \E format \in DOMAIN lastRun.grouped, sorter \in Sorters :
          \E g \in {GenerateThumbnails(NewIO(sheets, sorter), lastRun.reconciled,
                                       lastRun.grouped[format], sources, format,
                                       lastRun.force, NoFault)} :
              /\ lastRun' = [lastRun EXCEPT
                                !.ok = (g.err = "nil"),
                                !.sorter = sorter,
                                !.err = IF g.err = "nil" THEN "nil"
                                        ELSE "generating thumbnails",
                                !.batches = BatchesOf(lastRun.grouped),
                                !.final = g.heap, !.plan = g.io.plan,
                                !.events = g.io.events]
              /\ sheets' = g.io.sheets
    /\ UNCHANGED <<sources, thumbsFile, runs, changes, anyFailed>>

NextGenerate == ApplyGenerate

SpecGenerate == InitGenerate /\ [][NextGenerate]_vars

\* A directory that is processed with a manifest that was not written by
\* an earlier run: its records name files of the directory, a file that is
\* not there and a file the scan does not keep, with or without a thumb
\* path.
LoadedNames == {FileS, FileA, FileP, FileG}

LoadedRecords ==
    { [NewMedia(path) EXCEPT
          !.ThumbPath = IF gen THEN <<SheetName(0, TypeOf(path)), "?crc=", Hex(Uint32(0))>>
                        ELSE EmptyString] :
      path \in LoadedNames, gen \in BOOLEAN }

InitLoaded ==
    \E dirFiles \in Dirs(LoadedUnits), media \in SeqsUpTo(LoadedRecords, MaxLoadedLen) :
        /\ sources = dirFiles
        /\ thumbsFile = SaveThumbsFile(AbsentFile, media, NoFault).file
        /\ sheets = NoSheets
        /\ lastRun = NoRun
        /\ runs = 0
        /\ changes = 0
        /\ anyFailed = FALSE

NextLoaded ==
    \E mapOrder \in MapOrders(sources), sorter \in SortersOf(sources) :
        \E force \in BOOLEAN, fault \in Faults :
            Run(force, mapOrder, sorter, fault)

SpecLoaded == InitLoaded /\ [][NextLoaded]_vars

\* The loop of run over the directories of the media tree: sources,
\* thumbsFile, sheets and lastRun hold one entry for each directory, in walk
\* order, `runs` is the number of directories the loop has been through and
\* anyFailed is TRUE when run has returned an error.
WalkUnits == { {FileS}, {FileP} }

InitWalk ==
    \E dirs \in [1..MaxDirs -> Dirs(WalkUnits)] :
        /\ sources = dirs
        /\ thumbsFile = [d \in 1..MaxDirs |-> AbsentFile]
        /\ sheets = [d \in 1..MaxDirs |-> NoSheets]
        /\ lastRun = [d \in 1..MaxDirs |-> NoRun]
        /\ runs = 0
        /\ changes = 0
        /\ anyFailed = FALSE

\* A variant of the test of the error that never leaves the loop; C35 does
\* not hold of it.
ReturnsError_Never(r) == FALSE

\* if err != nil { return ... }
ReturnsError(r) == ~r.run.ok

\* One iteration of the loop; cfg.ForceThumbnails is the same in all.
ProcessNext(force, fault) ==
    /\ ~anyFailed
    /\ runs < MaxDirs
    /\ \A d \in 1..runs : lastRun[d].force = force
    /\ \E mapOrder \in MapOrders(sources[runs + 1]), sorter \in SortersOf(sources[runs + 1]) :
          \E r \in {ProcessDirectory(sources[runs + 1], thumbsFile[runs + 1],
                                     sheets[runs + 1], force, mapOrder, sorter, fault)} :
              /\ thumbsFile' = [thumbsFile EXCEPT ![runs + 1] = r.thumbsFile]
              /\ sheets' = [sheets EXCEPT ![runs + 1] = r.sheets]
              /\ lastRun' = [lastRun EXCEPT ![runs + 1] = r.run]
              /\ anyFailed' = ReturnsError(r)
    /\ runs' = runs + 1
    /\ UNCHANGED <<sources, changes>>

NextWalk == \E force \in BOOLEAN, fault \in Faults : ProcessNext(force, fault)

SpecWalk == InitWalk /\ [][NextWalk]_vars

\* diff applied to every pair of a short record sequence and a short
\* sequence of names.
DiffNames == {FileA, FileP, FilePnfd}

InitDiff ==
    \E paths \in SeqsUpTo(DiffNames, MaxDiffLen), files \in SeqsUpTo(DiffNames, MaxDiffLen) :
        /\ sources = {}
        /\ thumbsFile = AbsentFile
        /\ sheets = NoSheets
        /\ runs = 0
        /\ changes = 0
        /\ anyFailed = FALSE
        /\ lastRun = [NoRun EXCEPT !.loaded = [i \in 1..Len(paths) |-> NewMedia(paths[i])],
                                   !.scanned = files]

ApplyDiff ==
    /\ ~lastRun.diffed
    /\ \E d \in {diff(lastRun.loaded, lastRun.scanned)} :
          lastRun' = [lastRun EXCEPT !.diffed = TRUE, !.toAdd = d.toAdd,
                                     !.toDelete = d.toDelete]
    /\ UNCHANGED <<sources, thumbsFile, sheets, runs, changes, anyFailed>>

NextDiff == ApplyDiff

SpecDiff == InitDiff /\ [][NextDiff]_vars

(***************************************************************************)
(* Properties.  They are stated over what is on disk (thumbsFile, sheets)  *)
(* and over what the last run observed and did (lastRun).                  *)
(***************************************************************************)
\* The records of the manifest file on disk.
Manifest == LoadThumbsFile(thumbsFile).media

Range(s) == { s[i] : i \in 1..Len(s) }
Paths(media) == { media[i].Path : i \in 1..Len(media) }
Distinct(media) == \A i, j \in 1..Len(media) : media[i].Path = media[j].Path => i = j

\* The parts of a thumb path "<sheet>?crc=<checksum>".
SheetOf(thumbPath) == thumbPath[1]
CrcOf(thumbPath) == thumbPath[3]

\* A step that is one run of ProcessDirectory.
IsRun == runs' = runs + 1

\* The positions, in a record sequence, of the records of one extension
\* group, and of its k-th batch (k from 0).
GroupPositions(media, format) ==
    SelectSeq([i \in 1..Len(media) |-> i], LAMBDA i : TypeOf(media[i].Path) = format)
BatchPositions(media, format, k) ==
    LET g == GroupPositions(media, format)
    IN { g[q] : q \in { r \in 1..Len(g) : (r - 1) \div (maxPerRow * maxRows) = k } }
NumBatches(media, format) ==
    (Len(GroupPositions(media, format)) + maxPerRow * maxRows - 1) \div (maxPerRow * maxRows)

\* The calls of one kind made by the last run.
Calls(run, ops) == { i \in 1..Len(run.events) : run.events[i].op \in ops }

\* C1: after a successful run, a second run with force = false and no
\* change to the source files in between decodes no image, calls Upload
\* zero times, writes no sheet, and leaves the manifest records (and the
\* sheets) as they were.
C1_IdempotentCleanRun ==
    [][ (IsRun /\ lastRun.ok /\ lastRun.dirFiles = sources /\ ~lastRun'.force)
            => /\ Calls(lastRun', {"open", "decode", "upload", "write"}) = {}
               /\ LoadThumbsFile(thumbsFile').media = LoadThumbsFile(thumbsFile).media
               /\ sheets' = sheets ]_vars

\* C2: a batch is skipped if and only if force is false, every record of
\* the batch has a thumb path and all of them have the same one; a batch
\* that is not skipped is regenerated as a whole (every record decoded, its
\* sheet written), a skipped one is not touched.
C2_CachePolicy ==
    /\ \A i \in 1..Len(lastRun.plan) :
          LET e == lastRun.plan[i]
              batch == BatchPositions(lastRun.reconciled, e.format, e.batch)
              thumbs == { lastRun.reconciled[p].ThumbPath : p \in batch }
              clean == EmptyString \notin thumbs /\ Cardinality(thumbs) = 1
              writes == { j \in Calls(lastRun, {"write"}) :
                             lastRun.events[j].key = SheetName(e.batch, e.format) }
          IN /\ batch # {}
             /\ e.skipped <=> (~lastRun.force /\ clean)
             /\ e.skipped => writes = {}
             /\ (~e.skipped /\ lastRun.ok)
                   => /\ writes # {}
                      /\ \A p \in batch :
                            \E j \in Calls(lastRun, {"decode"}) :
                                lastRun.events[j].key = lastRun.reconciled[p].Path
    /\ lastRun.ok =>
          \A format \in { TypeOf(path) : path \in Paths(lastRun.reconciled) } :
              { lastRun.plan[i].batch : i \in { j \in 1..Len(lastRun.plan) :
                                                   lastRun.plan[j].format = format } }
                  = 0..(NumBatches(lastRun.reconciled, format) - 1)

\* A run without force that skipped one batch and regenerated another whose
\* records all had a thumb path, but not the same one.
C2_Witness ==
    /\ ~lastRun.force
    /\ \E i, j \in 1..Len(lastRun.plan) :
          /\ lastRun.plan[i].skipped
          /\ ~lastRun.plan[j].skipped
          /\ \A p \in BatchPositions(lastRun.reconciled, lastRun.plan[j].format,
                                     lastRun.plan[j].batch) :
                lastRun.reconciled[p].ThumbPath # EmptyString

\* C3: a run that returns an error at a step before the save leaves the
\* manifest file exactly as it was; the manifest is written at most once
\* per run, as the last thing the run does, after every batch that had to
\* be regenerated has been written and uploaded.
C3_FailedRunKeepsManifest ==
    [][ IsRun =>
          LET saves == Calls(lastRun', {"save"})
          IN /\ (~lastRun'.ok /\ lastRun'.err # "saving media")
                    => (thumbsFile' = thumbsFile /\ saves = {})
             /\ thumbsFile' # thumbsFile => saves # {}
             /\ Cardinality(saves) <= 1
             /\ \A s \in saves :
                   /\ s = Len(lastRun'.events)
                   /\ lastRun'.ok = lastRun'.events[s].ok
                   /\ \A i \in 1..(s - 1) : lastRun'.events[i].ok
                   /\ \A i \in 1..Len(lastRun'.plan) :
                         ~lastRun'.plan[i].skipped =>
                            \A op \in {"write", "upload"} :
                               \E j \in Calls(lastRun', {op}) :
                                  lastRun'.events[j].key
                                     = SheetName(lastRun'.plan[i].batch,
                                                 lastRun'.plan[i].format) ]_vars

\* A run that failed after it had written a sheet, in a directory that has
\* a manifest from an earlier run.
C3_Witness ==
    /\ ~lastRun.ok
    /\ lastRun.err = "generating thumbnails"
    /\ thumbsFile # AbsentFile
    /\ \E i \in Calls(lastRun, {"write"}) : lastRun.events[i].ok

\* C4: every record of the manifest on disk that has a thumb path names a
\* sheet file that exists and whose bytes have the checksum the thumb path
\* carries.
C4_ManifestSheetConsistency ==
    \A i \in 1..Len(Manifest) :
        Manifest[i].ThumbPath # EmptyString =>
            /\ SheetOf(Manifest[i].ThumbPath) \in DOMAIN sheets
            /\ crc32sum(sheets[SheetOf(Manifest[i].ThumbPath)]) = CrcOf(Manifest[i].ThumbPath)

\* C5: when every run so far succeeded, the records of the manifest whose
\* thumb paths name the same sheet file have the same total width and the
\* same total height.
C5_SameSheetSameTotals ==
    ~anyFailed =>
        \A sheet \in { SheetOf(Manifest[i].ThumbPath) :
                          i \in { j \in 1..Len(Manifest) :
                                     Manifest[j].ThumbPath # EmptyString } } :
            Cardinality({ <<Manifest[i].ThumbTotalWidth, Manifest[i].ThumbTotalHeight>> :
                             i \in { j \in 1..Len(Manifest) :
                                        /\ Manifest[j].ThumbPath # EmptyString
                                        /\ SheetOf(Manifest[j].ThumbPath) = sheet } }) = 1

\* C6: when every run so far succeeded, a record of the manifest that has a
\* thumb path names the sheet thumbnails_<k>.<ext> of the batch k that holds
\* it in its group, so that two batches of a group never name the same
\* sheet.
C6_BatchNamesItsSheet ==
    ~anyFailed =>
        \A format \in { TypeOf(path) : path \in Paths(Manifest) } :
            \A k \in 0..(NumBatches(Manifest, format) - 1) :
                \A p \in BatchPositions(Manifest, format, k) :
                    Manifest[p].ThumbPath # EmptyString =>
                        SheetOf(Manifest[p].ThumbPath) = SheetName(k, format)

\* C7: diff(R, F) returns in toAdd exactly the names of F that are the path
\* of no record of R, and in toDelete exactly the paths of R that are not
\* in F, names being compared byte for byte; the two results are disjoint.
C7_DiffCorrect ==
    lastRun.diffed =>
        /\ Range(lastRun.toAdd) = Range(lastRun.scanned) \ Paths(lastRun.loaded)
        /\ Range(lastRun.toDelete) = Paths(lastRun.loaded) \ Range(lastRun.scanned)
        /\ Range(lastRun.toAdd) \cap Range(lastRun.toDelete) = {}

\* diff applied to records and names that differ only in their Unicode
\* form: the name is to add and the path is to delete.
C7_Witness ==
    /\ lastRun.diffed
    /\ FileP \in Range(lastRun.toAdd)
    /\ FilePnfd \in Range(lastRun.toDelete)
    /\ FileA \in Range(lastRun.scanned) \cap Paths(lastRun.loaded)

\* C8: after a successful run the manifest on disk has exactly one record
\* for each name the scan returned and no record for any other path; this
\* includes the run that finds every image removed.
C8_RecordLifecycle ==
    lastRun.ok =>
        /\ Paths(Manifest) = Range(lastRun.scanned)
        /\ Distinct(Manifest)

\* C9: when the paths of the loaded manifest are pairwise distinct, so are
\* the paths of the records UploadNewMedia returns.
C9_PathsUnique ==
    (lastRun.diffed /\ Distinct(lastRun.loaded)) => Distinct(lastRun.reconciled)

\* The check values of CRC-32 (IEEE): the checksum of the ASCII digits
\* "123456789" is cbf43926 and that of one zero byte is d202ef8d.
CheckValues ==
    /\ Hex(ChecksumIEEE(<<49, 50, 51, 52, 53, 54, 55, 56, 57>>))
           = <<"c", "b", "f", "4", "3", "9", "2", "6">>
    /\ Hex(ChecksumIEEE(<<0>>)) = <<"d", "2", "0", "2", "e", "f", "8", "d">>

\* C10: when a batch is regenerated, the bytes b written to its sheet
\* thumbnails_<k>.<ext> are the bytes passed to Upload, every record of the
\* batch gets the thumb path thumbnails_<k>.<ext>?crc=<h>, h being the
\* CRC-32 (IEEE) of b in lowercase hexadecimal digits, and the thumb path
\* of every record of a batch that is not regenerated stays what it was.
C10_RegeneratedThumbPath ==
    LET written == Calls(lastRun, {"write"})
        stamped == UNION { BatchPositions(lastRun.final, lastRun.events[i].key.ext,
                                          lastRun.events[i].key.stem) : i \in written }
    IN /\ CheckValues
       /\ \A i \in written :
             LET w == lastRun.events[i]
             IN /\ w.key = SheetName(w.key.stem, w.key.ext)
                /\ \A p \in BatchPositions(lastRun.final, w.key.ext, w.key.stem) :
                      lastRun.final[p].ThumbPath = <<w.key, "?crc=", crc32sum(w.body)>>
                /\ w.ok => /\ sheets[w.key] = w.body
                           /\ lastRun.events[i + 1].op = "upload"
                           /\ lastRun.events[i + 1].key = w.key
                           /\ lastRun.events[i + 1].body = w.body
       /\ \A p \in (1..Len(lastRun.final)) \ stamped :
             lastRun.final[p].ThumbPath = lastRun.reconciled[p].ThumbPath
       /\ lastRun.ok =>
             \A i \in 1..Len(lastRun.plan) :
                 ~lastRun.plan[i].skipped =>
                     \E j \in written :
                         lastRun.events[j].key
                            = SheetName(lastRun.plan[i].batch, lastRun.plan[i].format)

\* A successful run that took in new files, regenerated one batch of a
\* group and skipped another batch of the same group.
C10_Witness ==
    /\ lastRun.ok
    /\ lastRun.toAdd # <<>>
    /\ \E i, j \in 1..Len(lastRun.plan) :
          /\ lastRun.plan[i].format = lastRun.plan[j].format
          /\ lastRun.plan[i].skipped
          /\ ~lastRun.plan[j].skipped

\* C11: after a successful run, a further run with force = true and no
\* change to the source files in between regenerates every batch, writes to
\* every sheet the bytes it already held, and saves a manifest whose records
\* (thumb path, offsets, totals) are those of the manifest before the run.
C11_ForcedRunReproduces ==
    [][ (IsRun /\ lastRun.ok /\ lastRun.dirFiles = sources /\ lastRun'.force /\ lastRun'.ok)
            => /\ \A i \in 1..Len(lastRun'.plan) : ~lastRun'.plan[i].skipped
               /\ \A i \in Calls(lastRun', {"write"}) :
                     /\ lastRun'.events[i].key \in DOMAIN sheets
                     /\ sheets[lastRun'.events[i].key] = lastRun'.events[i].body
               /\ LoadThumbsFile(thumbsFile').media = LoadThumbsFile(thumbsFile).media ]_vars

\* The Upload calls of a run whose key is this name.
UploadsOf(run, name) == { i \in Calls(run, {"upload"}) : run.events[i].key = name }

\* C12: in a successful run Upload is called exactly once for each file
\* name in toAdd and exactly once for the sheet of each regenerated batch;
\* it is not called for a file that already has a record in the loaded
\* manifest, nor for the sheet of a batch that was skipped, nor for anything
\* else.
C12_UploadsExactlyOnce ==
    lastRun.ok =>
        /\ \A file \in Range(lastRun.toAdd) :
               Cardinality(UploadsOf(lastRun, file)) = 1
        /\ \A i \in 1..Len(lastRun.plan) :
               Cardinality(UploadsOf(lastRun, SheetName(lastRun.plan[i].batch,
                                                        lastRun.plan[i].format)))
                   = IF lastRun.plan[i].skipped THEN 0 ELSE 1
        /\ \A path \in Paths(lastRun.loaded) : UploadsOf(lastRun, path) = {}
        /\ \A i \in Calls(lastRun, {"upload"}) :
               \/ lastRun.events[i].key \in Range(lastRun.toAdd)
               \/ \E j \in 1..Len(lastRun.plan) :
                      /\ ~lastRun.plan[j].skipped
                      /\ lastRun.events[i].key = SheetName(lastRun.plan[j].batch,
                                                           lastRun.plan[j].format)

\* The batches of a group that hold a record with this path.
BatchesHolding(media, path) ==
    { k \in 0..(NumBatches(media, TypeOf(path)) - 1) :
         \E p \in BatchPositions(media, TypeOf(path), k) : media[p].Path = path }

\* C13: when reading (opening or decoding) a source image of a batch fails,
\* the run stops there with an error: nothing is done after the failed
\* read, no sheet is written or uploaded for that batch or for a later
\* batch of its group, and the manifest file is left as it was.
C13_DecodeFailureStopsBatch ==
    [][ IsRun =>
          \A i \in Calls(lastRun', {"open", "decode"}) :
              ~lastRun'.events[i].ok =>
                  /\ i = Len(lastRun'.events)
                  /\ ~lastRun'.ok
                  /\ thumbsFile' = thumbsFile
                  /\ \A k \in BatchesHolding(lastRun'.reconciled, lastRun'.events[i].key) :
                        \A later \in k..(NumBatches(lastRun'.reconciled,
                                                     TypeOf(lastRun'.events[i].key)) - 1) :
                            \A j \in Calls(lastRun', {"write", "upload"}) :
                                lastRun'.events[j].key
                                    # SheetName(later, TypeOf(lastRun'.events[i].key)) ]_vars

\* A run on a directory that has a manifest, in which decoding an image of
\* the first batch of a group of two batches failed.
C13_Witness ==
    /\ ~lastRun.ok
    /\ thumbsFile # AbsentFile
    /\ \E i \in Calls(lastRun, {"decode"}) :
          /\ ~lastRun.events[i].ok
          /\ BatchesHolding(lastRun.reconciled, lastRun.events[i].key) = {0}
          /\ NumBatches(lastRun.reconciled, TypeOf(lastRun.events[i].key)) = 2

\* C14: LoadThumbsFile returns ErrThumbYamlNotFound when the manifest file
\* is absent, and another error when the file exists but cannot be read or
\* decoded.  In the first case ProcessDirectory goes on with no records (it
\* scans the directory); in the second it returns an error without scanning,
\* uploading or writing anything: the load is the only call it has made,
\* and the manifest and the sheets are left as they were.
C14_MissingOrBrokenManifest ==
    [][ IsRun =>
          /\ thumbsFile.state = "absent" =>
                /\ LoadThumbsFile(thumbsFile).err = "ErrThumbYamlNotFound"
                /\ lastRun'.loaded = <<>>
                /\ lastRun'.err # "loading thumbs file"
                /\ Calls(lastRun', {"scan"}) # {}
          /\ thumbsFile.state \in {"unreadable", "malformed"} =>
                /\ LoadThumbsFile(thumbsFile).err \notin {"nil", "ErrThumbYamlNotFound"}
                /\ ~lastRun'.ok
                /\ lastRun'.err = "loading thumbs file"
                /\ Calls(lastRun', {"scan", "read", "upload", "open", "decode",
                                    "write", "save"}) = {}
                /\ thumbsFile' = thumbsFile
                /\ sheets' = sheets ]_vars

\* A run that found a manifest it could not decode, in a directory that
\* holds a new image and a sheet of an earlier run.
C14_Witness ==
    /\ thumbsFile.state = "malformed"
    /\ lastRun.err = "loading thumbs file"
    /\ sheets # NoSheets
    /\ \E name \in sources : \A i \in 1..Len(thumbsFile.content) :
          thumbsFile.content[i]["path"] # name

\* C15: SaveThumbsFile called with no records returns nil and leaves the
\* manifest file as it is, absent or present: a run that ends with an empty
\* record sequence succeeds, and neither creates nor changes the file.
C15_SaveEmptyIsNoOp ==
    [][ (IsRun /\ lastRun'.diffed /\ lastRun'.err # "uploading new media"
               /\ lastRun'.reconciled = <<>>)
            => /\ lastRun'.ok
               /\ lastRun'.final = <<>>
               /\ thumbsFile' = thumbsFile
               /\ Calls(lastRun', {"save"}) = {} ]_vars

\* A successful run that ended with no records in a directory that has a
\* manifest with records from an earlier run.
C15_Witness ==
    /\ lastRun.ok
    /\ lastRun.loaded # <<>>
    /\ lastRun.reconciled = <<>>
    /\ thumbsFile.state = "ok"
    /\ thumbsFile.content # <<>>

\* C16: for every non-empty record sequence R with pairwise distinct paths,
\* LoadThumbsFile applied to the file SaveThumbsFile(R) has written returns
\* no error and a sequence equal to R: the same records in the same order,
\* every field with the value it had, zero and empty values included.
C16_RoundTrip ==
    (runs = 2 /\ ~anyFailed /\ lastRun.final # <<>> /\ Distinct(lastRun.final))
        => /\ lastRun.err = "nil"
           /\ Len(lastRun.loaded) = Len(lastRun.final)
           /\ \A i \in 1..Len(lastRun.final) : lastRun.loaded[i] = lastRun.final[i]

\* Two records saved over an older manifest and loaded back: one never
\* generated, one generated at the top of its sheet (y offset zero, which
\* the file leaves out) and right of its first tile.
C16_Witness ==
    /\ runs = 2
    /\ ~anyFailed
    /\ Len(lastRun.final) = 2
    /\ Distinct(lastRun.final)
    /\ lastRun.final[1].ThumbPath = EmptyString
    /\ lastRun.final[2].ThumbPath # EmptyString
    /\ lastRun.final[2].ThumbXOffset # 0
    /\ lastRun.final[2].ThumbYOffset = 0
    /\ "thumb_y" \notin DOMAIN thumbsFile.content[2]
    /\ Len(lastRun.loaded) = 2

\* The lengths of the batches of a group.
BatchLens(batches) == [k \in 1..Len(batches) |-> Len(batches[k])]

\* C17: for a group of n records GenerateThumbnails forms ceil(n / 50)
\* batches; every batch holds at least 1 and at most 50 records, every
\* batch but the last exactly 50, the k-th batch is the slice of the group
\* that starts after the first 50 * (k - 1) records, and the batches
\* together are the whole group.  A group of 23 gives one batch of 23, a
\* group of 120 batches of 50, 50 and 20.
C17_Batching ==
    \A format \in DOMAIN lastRun.batches :
        LET group == lastRun.grouped[format]
            batches == lastRun.batches[format]
        IN /\ Len(batches) = (Len(group) + 49) \div 50
           /\ \A k \in 1..Len(batches) :
                 /\ Len(batches[k]) >= 1
                 /\ Len(batches[k]) <= 50
                 /\ k < Len(batches) => Len(batches[k]) = 50
                 /\ batches[k] = SubSeq(group, 50 * (k - 1) + 1,
                                        50 * (k - 1) + Len(batches[k]))
           /\ Len(batches) > 0 =>
                 50 * (Len(batches) - 1) + Len(batches[Len(batches)]) = Len(group)
           /\ Len(group) = 23 => BatchLens(batches) = <<23>>
           /\ Len(group) = 120 => BatchLens(batches) = <<50, 50, 20>>

\* The batching applied to a group of 120 records.
C17_Witness ==
    \E format \in DOMAIN lastRun.batches :
        /\ Len(lastRun.grouped[format]) = 120
        /\ Len(lastRun.batches[format]) = 3

\* The key under which a file of this extension is grouped.
GroupKey(ext) == IF ext \in {"jpg", "jpeg"} THEN "jpg" ELSE ext

\* C18: once the records have been grouped, every record is in exactly one
\* group, the group whose key is its extension with "jpeg" folded into
\* "jpg"; no group is empty, and a group lists its records in the order
\* they have in the record sequence.  So a .jpg and a .jpeg record are in
\* the same group (and, the group being short, in its one batch), and a
\* .png record is in another group.
C18_Grouping ==
    lastRun.err \in {"nil", "generating thumbnails"} =>
        LET media == lastRun.reconciled
            mediaGrouped == lastRun.grouped
        IN /\ \A i \in 1..Len(media) :
                 /\ GroupKey(media[i].Path.ext) \in DOMAIN mediaGrouped
                 /\ \A format \in DOMAIN mediaGrouped :
                       Cardinality({ q \in 1..Len(mediaGrouped[format]) :
                                        mediaGrouped[format][q] = i })
                           = IF format = GroupKey(media[i].Path.ext) THEN 1 ELSE 0
           /\ \A format \in DOMAIN mediaGrouped :
                 /\ mediaGrouped[format] # <<>>
                 /\ \A q \in 1..Len(mediaGrouped[format]) :
                       mediaGrouped[format][q] \in 1..Len(media)
                 /\ \A q, r \in 1..Len(mediaGrouped[format]) :
                       q < r => mediaGrouped[format][q] < mediaGrouped[format][r]
           /\ \A i, j \in 1..Len(media) :
                 (media[i].Path.ext = "jpg" /\ media[j].Path.ext = "jpeg"
                     /\ Len(mediaGrouped["jpg"]) <= 50)
                     => /\ Len(lastRun.batches["jpg"]) = 1
                        /\ {i, j} \subseteq Range(lastRun.batches["jpg"][1])
           /\ \A i, j \in 1..Len(media) :
                 (media[i].Path.ext = "png" /\ media[j].Path.ext # "png")
                     => Range(mediaGrouped["png"]) \cap Range(mediaGrouped["jpg"]) = {}

\* The grouping applied to a .jpeg, a .png and a .jpg record, in this order.
C18_Witness ==
    /\ lastRun.err = "nil"
    /\ Len(lastRun.reconciled) = 3
    /\ lastRun.reconciled[1].Path.ext = "jpeg"
    /\ lastRun.reconciled[2].Path.ext = "png"
    /\ lastRun.reconciled[3].Path.ext = "jpg"
    /\ DOMAIN lastRun.grouped = {"jpg", "png"}

\* What C19 says of a first run that scanned files of the one extension ext
\* and is to have generated the one sheet thumbnails_0.<format>: a single
\* sheet written, under that name, and a manifest with one record for each
\* scanned file, all with the thumb path "thumbnails_0.<format>?crc=<hex>"
\* of that sheet and with the same totals.
FirstRunOutcome(run, f, sh, format) ==
    /\ Cardinality(Calls(run, {"write"})) = 1
    /\ \A i \in Calls(run, {"write"}) : run.events[i].key = SheetName(0, format)
    /\ f.state = "ok"
    /\ Len(LoadThumbsFile(f).media) = Len(run.scanned)
    /\ \A i \in 1..Len(LoadThumbsFile(f).media) :
          LET m == LoadThumbsFile(f).media[i]
          IN /\ Len(m.ThumbPath) = 3
             /\ m.ThumbPath[1] = SheetName(0, format)
             /\ m.ThumbPath[2] = "?crc="
             /\ m.ThumbPath[3] = crc32sum(sh[SheetName(0, format)])
             /\ m.ThumbPath = LoadThumbsFile(f).media[1].ThumbPath
             /\ m.ThumbTotalWidth = LoadThumbsFile(f).media[1].ThumbTotalWidth
             /\ m.ThumbTotalHeight = LoadThumbsFile(f).media[1].ThumbTotalHeight
             /\ m.ThumbTotalWidth > 0
             /\ m.ThumbTotalHeight > 0

\* A successful run without force on a directory that has no manifest and
\* holds between 1 and 50 images, all of the extension ext.
IsFirstRun(ext) ==
    /\ IsRun
    /\ thumbsFile = AbsentFile
    /\ ~lastRun'.force
    /\ lastRun'.ok
    /\ Len(lastRun'.scanned) \in 1..50
    /\ { lastRun'.scanned[i].ext : i \in 1..Len(lastRun'.scanned) } = {ext}

\* C19 as stated: a first run on n images of one extension (1 <= n <= 50)
\* generates exactly one sheet, named thumbnails_0.<ext> after that
\* extension, and creates a manifest of n records that all have the thumb
\* path "thumbnails_0.<ext>?crc=<hex>" and the same totals.
C19_FirstRunAsStated ==
    [][ \A ext \in {"jpg", "jpeg", "png"} :
            IsFirstRun(ext) => FirstRunOutcome(lastRun', thumbsFile', sheets', ext) ]_vars

\* C19, amended: the sheet is named after the group of the extension, which
\* is "jpg" for .jpeg files: a first run on n images of one extension
\* (1 <= n <= 50) generates exactly one sheet thumbnails_0.<format>, and
\* creates a manifest of n records that all have the thumb path
\* "thumbnails_0.<format>?crc=<hex>" and the same totals.
C19_FirstRun ==
    [][ \A ext \in {"jpg", "jpeg", "png"} :
            IsFirstRun(ext) =>
                FirstRunOutcome(lastRun', thumbsFile', sheets', GroupKey(ext)) ]_vars

\* A first run, without force, on 50 .jpeg images: a manifest of 50
\* records and one sheet.
C19_Witness ==
    /\ runs = 1
    /\ lastRun.ok
    /\ ~lastRun.force
    /\ lastRun.loaded = <<>>
    /\ Len(lastRun.scanned) = 50
    /\ \A i \in 1..Len(lastRun.scanned) : lastRun.scanned[i].ext = "jpeg"
    /\ Len(Manifest) = 50
    /\ Cardinality(DOMAIN sheets) = 1

\* C20: a thumbnails_* file may hold up to 500 images: after a successful
\* run the records of a group of at most 500 images all name one and the
\* same thumbnails_* file, the group having been split into a single batch.
C20_SheetHoldsFiveHundred ==
    lastRun.ok =>
        \A format \in DOMAIN lastRun.grouped :
            Len(lastRun.grouped[format]) <= readmeImagesPerSheet =>
                /\ Len(lastRun.batches[format]) = 1
                /\ Cardinality({ SheetOf(lastRun.final[lastRun.grouped[format][q]].ThumbPath) :
                                     q \in 1..Len(lastRun.grouped[format]) }) = 1

(***************************************************************************)
(* C21                                                                     *)
(***************************************************************************)
\* The format GenerateThumbnails was applied to, and its one batch.
FormatOf(run) == CHOOSE format \in DOMAIN run.grouped : TRUE

BatchApplied(run) == run.grouped[FormatOf(run)]

\* C21: for a format other than "png" and "jpg", GenerateThumbnail returns
\* an error and no bytes, and GenerateThumbnails, given a batch it does not
\* skip, returns an error, leaves the thumb path of every record as it was,
\* writes no sheet and uploads nothing.
C21_UnsupportedFormat ==
    FormatOf(lastRun) \notin {"png", "jpg"} =>
        /\ LET g == GenerateThumbnail(NewIO(NoSheets, lastRun.sorter), lastRun.reconciled,
                                      BatchApplied(lastRun), lastRun.dirFiles,
                                      FormatOf(lastRun), NoFault)
           IN g.err # "nil" /\ g.b = <<>>
        /\ (lastRun.err # "none" /\
                ~Skipped(lastRun.reconciled, BatchApplied(lastRun), lastRun.force)) =>
               /\ lastRun.err = "generating thumbnails"
               /\ \A p \in 1..Len(lastRun.final) :
                      lastRun.final[p].ThumbPath = lastRun.reconciled[p].ThumbPath
               /\ Calls(lastRun, {"write", "upload"}) = {}
               /\ sheets = NoSheets

\* A forced generation of a "gif" sheet for two records that carry an
\* earlier thumb path has been refused after decoding both images.
C21_Witness ==
    /\ FormatOf(lastRun) = "gif"
    /\ lastRun.err = "generating thumbnails"
    /\ lastRun.force
    /\ Len(lastRun.final) = 2
    /\ \A p \in 1..2 : lastRun.final[p].ThumbPath # EmptyString
    /\ Cardinality(Calls(lastRun, {"decode"})) = 2

(***************************************************************************)
(* C22                                                                     *)
(***************************************************************************)
\* TRUE when the records at these positions all have a thumb path, and the
\* same one.
Clean(media, positions) ==
    /\ \A p \in positions : media[p].ThumbPath # EmptyString
    /\ \A p, q \in positions : media[p].ThumbPath = media[q].ThumbPath

\* C22: right after a successful run, every batch of every group of the
\* saved manifest is clean: its records all have a thumb path, and the same
\* one.
C22_SavedBatchesClean ==
    lastRun.ok =>
        \A format \in {"jpg", "png"} :
            \A k \in 0..(NumBatches(Manifest, format) - 1) :
                Clean(Manifest, BatchPositions(Manifest, format, k))

\* A successful run that added files to a manifest of several batches,
\* skipped one batch and regenerated another.
C22_Witness ==
    /\ lastRun.ok
    /\ lastRun.toAdd # <<>>
    /\ NumBatches(Manifest, "jpg") >= 2
    /\ \E i, j \in 1..Len(lastRun.plan) :
           lastRun.plan[i].skipped /\ ~lastRun.plan[j].skipped

(***************************************************************************)
(* C23                                                                     *)
(***************************************************************************)
\* The positions of the records of the batch a plan entry is about.
PlannedPositions(run, e) == Range(run.batches[e.format][e.batch + 1])

\* C23: the frame of a skipped batch.  The run changes no field of its
\* records, opens and decodes none of its images, and neither writes nor
\* uploads its sheet, the sheet its records name, whatever happens to the
\* other batches.
C23_SkippedBatchFrame ==
    \A i \in 1..Len(lastRun.plan) :
        lastRun.plan[i].skipped =>
            \A p \in PlannedPositions(lastRun, lastRun.plan[i]) :
                /\ lastRun.final[p] = lastRun.reconciled[p]
                /\ \A j \in Calls(lastRun, {"open", "decode"}) :
                       lastRun.events[j].key # lastRun.reconciled[p].Path
                /\ \A j \in Calls(lastRun, {"write", "upload"}) :
                       lastRun.events[j].key # SheetOf(lastRun.reconciled[p].ThumbPath)

(***************************************************************************)
(* C24                                                                     *)
(***************************************************************************)
\* The calls of a run that are about a sheet, and those that generate one.
IsSheetName(name) == name.pre = "thumbnails_"

SheetCalls(run, ops) == { i \in Calls(run, ops) : IsSheetName(run.events[i].key) }

GenerationCalls(run) == Calls(run, {"open", "decode"}) \cup SheetCalls(run, {"write", "upload"})

\* The records of the batch a sheet is generated from.
BatchOfSheet(run, name) == run.batches[name.ext][name.stem + 1]

\* C24: the order of the calls of one run.  The manifest is loaded before
\* the directory is scanned; every new source file is uploaded before
\* anything is done for a sheet; a sheet is written right after the images
\* of its batch have been decoded and composed, with the bytes composed,
\* and it is uploaded right after it was written, with the bytes written;
\* the sheets of a group are written in ascending batch index; and the
\* manifest is saved last, after every upload.
C24_OrderOfCalls ==
    LET e == lastRun.events
    IN /\ \A i \in Calls(lastRun, {"load"}) : \A j \in Calls(lastRun, {"scan"}) : i < j
       /\ \A i \in Calls(lastRun, {"scan"}) : Calls(lastRun, {"load"}) # {}
       /\ \A i \in Calls(lastRun, {"upload"}) \ SheetCalls(lastRun, {"upload"}) :
              \A j \in GenerationCalls(lastRun) : i < j
       /\ \A w \in SheetCalls(lastRun, {"write"}) :
              LET batchFiles == BatchOfSheet(lastRun, e[w].key)
              IN /\ w > Len(batchFiles)
                 /\ \A q \in 1..Len(batchFiles) :
                        /\ e[w - Len(batchFiles) + q - 1].op = "decode"
                        /\ e[w - Len(batchFiles) + q - 1].key = lastRun.reconciled[batchFiles[q]].Path
                 /\ e[w].body # <<>>
                 /\ ThumbPathOf(e[w].key, e[w].body) = lastRun.final[batchFiles[1]].ThumbPath
       /\ \A u \in SheetCalls(lastRun, {"upload"}) :
              /\ u > 1
              /\ e[u - 1].op = "write" /\ e[u - 1].ok
              /\ e[u - 1].key = e[u].key /\ e[u - 1].body = e[u].body
       /\ \A w \in SheetCalls(lastRun, {"write"}) :
              (e[w].ok /\ w < Len(e)) => e[w + 1].op = "upload" /\ e[w + 1].key = e[w].key
       /\ \A w1, w2 \in SheetCalls(lastRun, {"write"}) :
              (w1 < w2 /\ e[w1].key.ext = e[w2].key.ext) => e[w1].key.stem < e[w2].key.stem
       /\ \A i \in Calls(lastRun, {"save"}) :
              /\ i = Len(e)
              /\ \A u \in Calls(lastRun, {"upload"}) : u < i /\ e[u].ok

\* A successful run that uploaded new files, regenerated two batches of one
\* group and saved the manifest.
C24_Witness ==
    /\ lastRun.ok
    /\ Calls(lastRun, {"upload"}) \ SheetCalls(lastRun, {"upload"}) # {}
    /\ \E u1, u2 \in SheetCalls(lastRun, {"upload"}) :
           /\ lastRun.events[u1].key.ext = lastRun.events[u2].key.ext
           /\ lastRun.events[u1].key.stem < lastRun.events[u2].key.stem
    /\ Calls(lastRun, {"save"}) # {}

(***************************************************************************)
(* C25                                                                     *)
(***************************************************************************)
\* TRUE when the last application of GenerateThumbnails composed a sheet.
Composed == lastRun.ok /\ lastRun.plan # <<>> /\ ~lastRun.plan[1].skipped

\* The sheet it wrote, the canvas size encoded in it, and the order in which
\* the tiles were drawn on it, as positions of the batch.
SheetBytes == sheets[SheetName(0, FormatOf(lastRun))]

Canvas ==
    LET sig == SheetBytes[1]
    IN [totalWidth |-> sig[Len(sig) - 1], totalHeight |-> sig[Len(sig)]]

PlacementOrder ==
    [i \in 1..(Len(SheetBytes) - 1) |->
        CHOOSE p \in 1..Len(lastRun.final) : Key(lastRun.final[p].Path) = SheetBytes[i + 1][1]]

\* The row of the i-th tile drawn, and the tiles of a row, rows counted
\* from 0 and tiles from 1.
RowOf(i) == (i - 1) \div maxPerRow

NumRows == RowOf(Len(PlacementOrder)) + 1

TilesOfRow(r) == { i \in 1..Len(PlacementOrder) : RowOf(i) = r }

FirstOfRow(r) == lastRun.final[PlacementOrder[r * maxPerRow + 1]]

RECURSIVE Sum(_, _)
Sum(f, S) ==
    IF S = {} THEN 0
    ELSE LET x == CHOOSE x \in S : TRUE IN f[x] + Sum(f, S \ {x})

RowWidth(r) ==
    Sum([i \in TilesOfRow(r) |-> lastRun.final[PlacementOrder[i]].ThumbWidth], TilesOfRow(r))

\* The rectangle of a record's tile.
Right(m) == m.ThumbXOffset + m.ThumbWidth
Bottom(m) == m.ThumbYOffset + m.ThumbHeight

Apart(m, o) ==
    \/ Right(m) <= o.ThumbXOffset \/ Right(o) <= m.ThumbXOffset
    \/ Bottom(m) <= o.ThumbYOffset \/ Bottom(o) <= m.ThumbYOffset

\* C25: the canvas exactly contains the tiles: every tile rectangle lies
\* inside the canvas, no two of them overlap, the canvas is as wide as the
\* widest row and as high as the bottom edge of the lowest tile.
C25_CanvasContainsTiles ==
    Composed =>
        LET m == lastRun.final
        IN /\ \A p \in 1..Len(m) :
                  /\ 0 <= m[p].ThumbXOffset /\ Right(m[p]) <= Canvas.totalWidth
                  /\ 0 <= m[p].ThumbYOffset /\ Bottom(m[p]) <= Canvas.totalHeight
                  /\ m[p].ThumbWidth > 0 /\ m[p].ThumbHeight > 0
           /\ \A p, q \in 1..Len(m) : p # q => Apart(m[p], m[q])
           /\ \E r \in 0..(NumRows - 1) : Canvas.totalWidth = RowWidth(r)
           /\ \A r \in 0..(NumRows - 1) : RowWidth(r) <= Canvas.totalWidth
           /\ \E p \in 1..Len(m) : Canvas.totalHeight = Bottom(m[p])

\* A sheet of three rows whose widest row is the second.
C25_Witness ==
    /\ Composed
    /\ NumRows = 3
    /\ RowWidth(1) > RowWidth(0)
    /\ Canvas.totalWidth = RowWidth(1)

(***************************************************************************)
(* C26                                                                     *)
(***************************************************************************)
\* C26, as stated: the height of the canvas is the height of the first
\* tile drawn multiplied by the number of rows.
C26_HeightAsStated ==
    Composed => Canvas.totalHeight = FirstOfRow(0).ThumbHeight * NumRows

\* C26, amended: the height of the canvas is the sum, over the rows, of the
\* height of the first tile of the row; every row boundary adds the height
\* of the first tile of the row that begins there.
C26_Height ==
    Composed =>
        Canvas.totalHeight =
            Sum([r \in 0..(NumRows - 1) |-> FirstOfRow(r).ThumbHeight], 0..(NumRows - 1))

\* A sheet of three rows that begin with tiles of three different heights.
C26_Witness ==
    /\ Composed
    /\ NumRows = 3
    /\ FirstOfRow(0).ThumbHeight > FirstOfRow(1).ThumbHeight
    /\ FirstOfRow(1).ThumbHeight > FirstOfRow(2).ThumbHeight

(***************************************************************************)
(* C27                                                                     *)
(***************************************************************************)
\* The record of the i-th tile drawn.
Placed(i) == lastRun.final[PlacementOrder[i]]

\* C27: the i-th tile drawn (from 0) is in row i div 10 and column i mod 10:
\* its x offset is the sum of the widths of the earlier tiles of its row,
\* its y offset the sum, over the earlier rows, of the height of the row's
\* first tile, so that tiles share a y offset exactly when they share a row;
\* and every record of the batch gets the totals of the canvas.
C27_TilePlacement ==
    Composed =>
        /\ \A i \in 1..Len(PlacementOrder) :
               LET earlier == { j \in TilesOfRow(RowOf(i)) : j < i }
                   above == 0..(RowOf(i) - 1)
               IN /\ Cardinality(earlier) = (i - 1) % maxPerRow
                  /\ Placed(i).ThumbXOffset =
                         Sum([j \in earlier |-> Placed(j).ThumbWidth], earlier)
                  /\ Placed(i).ThumbYOffset =
                         Sum([r \in above |-> FirstOfRow(r).ThumbHeight], above)
        /\ \A i, j \in 1..Len(PlacementOrder) :
               (RowOf(i) = RowOf(j)) <=> (Placed(i).ThumbYOffset = Placed(j).ThumbYOffset)
        /\ \A p \in 1..Len(lastRun.final) :
               /\ lastRun.final[p].ThumbTotalWidth = Canvas.totalWidth
               /\ lastRun.final[p].ThumbTotalHeight = Canvas.totalHeight

\* A sheet of three rows, the first two beginning with tiles of different
\* heights.
C27_Witness ==
    /\ Composed
    /\ NumRows = 3
    /\ FirstOfRow(0).ThumbHeight > FirstOfRow(1).ThumbHeight
    /\ Placed(maxPerRow + 2).ThumbXOffset > 0
    /\ Placed(Len(PlacementOrder)).ThumbYOffset =
           FirstOfRow(0).ThumbHeight + FirstOfRow(1).ThumbHeight

(***************************************************************************)
(* C28                                                                     *)
(***************************************************************************)
\* C28: the tiles are drawn in an order that is a permutation of the
\* records of the batch and in which the thumb height never increases, so
\* that the first tile of a row is a tallest tile of the row; the records
\* themselves stay in the order they had in the batch.
C28_SortStep ==
    Composed =>
        /\ Len(PlacementOrder) = Len(BatchApplied(lastRun))
        /\ { PlacementOrder[i] : i \in 1..Len(PlacementOrder) } = Range(BatchApplied(lastRun))
        /\ \A i \in 1..(Len(PlacementOrder) - 1) :
               Placed(i).ThumbHeight >= Placed(i + 1).ThumbHeight
        /\ \A r \in 0..(NumRows - 1) : \A i \in TilesOfRow(r) :
               FirstOfRow(r).ThumbHeight >= Placed(i).ThumbHeight
        /\ Len(lastRun.final) = Len(lastRun.reconciled)
        /\ \A p \in 1..Len(lastRun.final) :
               lastRun.final[p].Path = lastRun.reconciled[p].Path

\* A batch of more than 12 records, on two rows, that starts with its
\* smallest tile: the tile drawn last is the first record, and two tiles of
\* one height are drawn in the opposite of their order in the batch.
C28_Witness ==
    /\ Composed
    /\ NumRows = 2
    /\ Len(PlacementOrder) > 12
    /\ PlacementOrder[1] # 1
    /\ PlacementOrder[Len(PlacementOrder)] = 1
    /\ Placed(1).ThumbHeight > lastRun.final[1].ThumbHeight
    /\ \E i \in 1..(Len(PlacementOrder) - 1) :
           /\ Placed(i).ThumbHeight = Placed(i + 1).ThumbHeight
           /\ PlacementOrder[i] > PlacementOrder[i + 1]

(***************************************************************************)
(* C29                                                                     *)
(***************************************************************************)
\* TRUE when every batch of every group of these records is clean.
AllClean(media) ==
    \A format \in {"jpg", "png"} :
        \A k \in 0..(NumBatches(media, format) - 1) :
            Clean(media, BatchPositions(media, format, k))

\* TRUE when the last run was a successful run without force that found
\* every batch of the manifest clean, no file gone, and new files.
AddedToClean ==
    /\ lastRun.ok /\ ~lastRun.force
    /\ lastRun.loaded # <<>> /\ AllClean(lastRun.loaded)
    /\ lastRun.toDelete = <<>> /\ lastRun.toAdd # <<>>

\* C29, as stated: such a run regenerates every batch of the new file's
\* group that holds a recorded file whose name sorts after the new name.
C29_ShiftAsStated ==
    AddedToClean =>
        \A i \in 1..Len(lastRun.toAdd), j \in 1..Len(lastRun.plan) :
            (/\ lastRun.plan[j].format = TypeOf(lastRun.toAdd[i])
             /\ \E p \in PlannedPositions(lastRun, lastRun.plan[j]) :
                    /\ p <= Len(lastRun.loaded)
                    /\ StringLess(lastRun.toAdd[i], lastRun.reconciled[p].Path))
                => ~lastRun.plan[j].skipped

\* C29, amended: such a run appends the records of the new files to the
\* records of the manifest, wherever their names sort; every recorded file
\* keeps its batch, and a batch is regenerated exactly when it holds a new
\* record.
C29_AppendKeepsBatches ==
    AddedToClean =>
        /\ lastRun.reconciled =
               lastRun.loaded \o [i \in 1..Len(lastRun.toAdd) |-> NewMedia(lastRun.toAdd[i])]
        /\ \A format \in {"jpg", "png"} :
               \A k \in 0..(NumBatches(lastRun.loaded, format) - 1) :
                   BatchPositions(lastRun.loaded, format, k)
                       \subseteq BatchPositions(lastRun.reconciled, format, k)
        /\ \A j \in 1..Len(lastRun.plan) :
               lastRun.plan[j].skipped <=>
                   \A p \in PlannedPositions(lastRun, lastRun.plan[j]) :
                       p <= Len(lastRun.loaded)

\* A file whose name sorts before fifty recorded files has been added, and
\* the run skipped their batch and generated a new one.
C29_Witness ==
    /\ AddedToClean
    /\ \E p \in 1..Len(lastRun.loaded) :
           StringLess(lastRun.toAdd[1], lastRun.loaded[p].Path)
    /\ \E i, j \in 1..Len(lastRun.plan) :
           /\ lastRun.plan[i].skipped /\ ~lastRun.plan[j].skipped
           /\ Cardinality(PlannedPositions(lastRun, lastRun.plan[i])) = maxPerRow * maxRows

(***************************************************************************)
(* C30                                                                     *)
(***************************************************************************)
PathsOf(media) == [i \in 1..Len(media) |-> media[i].Path]

Ascending(names) ==
    \A i \in 1..(Len(names) - 1) : ~StringLess(names[i + 1], names[i])

\* C30, as stated: the records of the saved manifest are sorted ascending
\* by file name.
C30_SortedAsStated == Ascending(PathsOf(Manifest))

\* C30, amended: the records of the saved manifest are in the order in
\* which they were recorded.  A successful run that saves the manifest
\* keeps the records of the files still there in the order they had, and
\* puts after them the records of the new files, sorted ascending by name.
C30_RecordedOrder ==
    (lastRun.ok /\ lastRun.final # <<>>) =>
        /\ PathsOf(Manifest) =
               PathsOf(SelectSeq(lastRun.loaded,
                                 LAMBDA m : m.Path \notin Range(lastRun.toDelete)))
                   \o lastRun.toAdd
        /\ Ascending(lastRun.toAdd)

\* A run has dropped a record, kept one and added one whose name sorts
\* before the one kept.
C30_Witness ==
    /\ lastRun.ok
    /\ lastRun.toDelete # <<>> /\ lastRun.toAdd # <<>>
    /\ Len(Manifest) >= 2
    /\ ~Ascending(PathsOf(Manifest))

(***************************************************************************)
(* C31                                                                     *)
(***************************************************************************)
\* TRUE when two outcomes of ProcessDirectory leave the same manifest and
\* the same sheets on disk.
SameDisk(r1, r2) == r1.thumbsFile = r2.thumbsFile /\ r1.sheets = r2.sheets

\* C31: a failed Upload is the last call of its run, which fails; and when
\* a run has failed, a repetition of it on the same directory in which
\* nothing fails leaves the manifest and the sheets that the same run,
\* nothing failing, would have left had it been started in place of the
\* failed one.
C31_RecoveryByRerun ==
    [][ IsRun =>
          /\ \A i \in Calls(lastRun', {"upload"}) :
                 ~lastRun'.events[i].ok => (i = Len(lastRun'.events) /\ ~lastRun'.ok)
          /\ ~lastRun'.ok =>
                 \A mapOrder \in MapOrders(sources) :
                     LET recovers(again, clean) == again.run.ok => SameDisk(again, clean)
                     IN recovers(ProcessDirectory(sources', thumbsFile', sheets',
                                                  lastRun'.force, mapOrder, lastRun'.sorter, NoFault),
                                 ProcessDirectory(sources, thumbsFile, sheets,
                                                  lastRun'.force, mapOrder, lastRun'.sorter, NoFault)) ]_vars

(***************************************************************************)
(* C32                                                                     *)
(***************************************************************************)
\* C32: the groups are visited in the order the map yields them, which is
\* any order; a run in which nothing fails leaves the same manifest and the
\* same sheets whatever that order is.
C32_GroupOrderIndependence ==
    [][ (IsRun /\ lastRun'.ok) =>
          \A mapOrder \in MapOrders(sources) :
              LET same(other) ==
                      /\ other.run.ok
                      /\ other.thumbsFile = thumbsFile'
                      /\ other.sheets = sheets'
              IN same(ProcessDirectory(sources, thumbsFile, sheets, lastRun'.force,
                                       mapOrder, lastRun'.sorter, NoFault)) ]_vars

\* The first group a run generated a sheet for.
FirstGroup(run) ==
    LET w == CHOOSE i \in Calls(run, {"write"}) : \A j \in Calls(run, {"write"}) : i <= j
    IN run.events[w].key.ext

\* A successful run has generated a sheet for the png group and then one
\* for the jpg group.
C32_Witness ==
    /\ lastRun.ok
    /\ \E i, j \in Calls(lastRun, {"write"}) :
           lastRun.events[i].key.ext # lastRun.events[j].key.ext
    /\ FirstGroup(lastRun) = "png"

(***************************************************************************)
(* C33                                                                     *)
(***************************************************************************)
\* The keys a run asked the uploader to store.
UploadedKeys(run) == { run.events[i].key : i \in Calls(run, {"upload"}) }

\* C33: for the same directory, manifest and force flag, the run with the
\* uploader that does nothing and the run with an uploader whose calls all
\* succeed make the same calls and leave the same manifest and the same
\* sheets, those of the run that took place; they differ only in the
\* bucket, which the first leaves empty and the second fills.
C33_UploaderIndependence ==
    [][ (IsRun /\ lastRun'.ok) =>
          \A mapOrder \in MapOrders(sources) :
              LET same(noop, stored) ==
                      /\ noop.run.ok /\ stored.run.ok
                      /\ noop.run = stored.run
                      /\ noop.thumbsFile = thumbsFile' /\ stored.thumbsFile = thumbsFile'
                      /\ noop.sheets = sheets' /\ stored.sheets = sheets'
                      /\ DOMAIN noop.remote = {}
                      /\ DOMAIN stored.remote = UploadedKeys(stored.run)
              IN same(ProcessDirectory(sources, thumbsFile, sheets, lastRun'.force,
                                       mapOrder, lastRun'.sorter, NoOpUploader),
                      ProcessDirectory(sources, thumbsFile, sheets, lastRun'.force,
                                       mapOrder, lastRun'.sorter, NoFault)) ]_vars

\* A successful run has uploaded a new file and a sheet.
C33_Witness ==
    /\ lastRun.ok
    /\ \E file \in Range(lastRun.toAdd) : file \in UploadedKeys(lastRun)
    /\ \E k \in UploadedKeys(lastRun) : IsSheetName(k)
    /\ Manifest # <<>>

(***************************************************************************)
(* C34                                                                     *)
(***************************************************************************)
\* C34: whatever the manifest held, after the reconciliation every record
\* names a scanned file, the scanned files end in .jpg, .jpeg or .png, and
\* so the groups ProcessDirectory hands to GenerateThumbnails are "jpg" and
\* "png" only, for which GenerateThumbnail has an encoder.
C34_FormatIsJpgOrPng ==
    lastRun.err # "none" =>
        /\ \A i \in 1..Len(lastRun.scanned) : lastRun.scanned[i].ext \in {"jpg", "jpeg", "png"}
        /\ Paths(lastRun.reconciled) \subseteq Range(lastRun.scanned)
        /\ DOMAIN lastRun.grouped \subseteq {"jpg", "png"}
        /\ \A i \in 1..Len(lastRun.plan) : lastRun.plan[i].format \in {"jpg", "png"}
        /\ \A format \in DOMAIN lastRun.grouped :
               GenerateThumbnail(NewIO(NoSheets, lastRun.sorter), lastRun.reconciled,
                                 lastRun.grouped[format], lastRun.dirFiles, format,
                                 NoFault).err # "unsupported format"

\* A directory that holds a .gif file next to a .jpg and a .png file has
\* been processed with a manifest that named the .gif file, and both groups
\* have been generated.
C34_Witness ==
    /\ lastRun.ok
    /\ FileG \in lastRun.dirFiles
    /\ FileG \in Paths(lastRun.loaded)
    /\ DOMAIN lastRun.grouped = {"jpg", "png"}
    /\ \A i \in 1..Len(lastRun.plan) : ~lastRun.plan[i].skipped

(***************************************************************************)
(* C35                                                                     *)
(***************************************************************************)
\* C35: the directories are processed one at a time in walk order, and
\* only as long as every directory before has been processed without
\* error: a step processes the next directory, which was not processed
\* before, after run has not returned and every earlier directory has
\* succeeded, and leaves the manifest and the sheets of every other
\* directory as they are.
C35_FirstErrorEndsRun ==
    [][ /\ runs' = runs + 1
        /\ ~anyFailed
        /\ \A d \in 1..runs : lastRun[d] # NoRun /\ lastRun[d].ok
        /\ \A d \in (runs + 1)..MaxDirs : lastRun[d] = NoRun
        /\ lastRun'[runs + 1] # NoRun
        /\ anyFailed' = ~lastRun'[runs + 1].ok
        /\ \A d \in 1..MaxDirs :
               d # runs + 1 =>
                   /\ thumbsFile'[d] = thumbsFile[d]
                   /\ sheets'[d] = sheets[d]
                   /\ lastRun'[d] = lastRun[d] ]_vars

\* The first directory has been processed and its manifest saved, the
\* second has failed after a sheet was written, and a directory with files
\* is left unprocessed.
C35_Witness ==
    /\ anyFailed
    /\ runs = 2
    /\ lastRun[1].ok /\ thumbsFile[1] # AbsentFile
    /\ ~lastRun[2].ok /\ sheets[2] # NoSheets
    /\ \E d \in 3..MaxDirs : lastRun[d] = NoRun /\ sources[d] # {}

(***************************************************************************)
(* C36                                                                     *)
(***************************************************************************)
\* The records of a batch that lie in the row at offset y.
InRow(media, positions, y) == { p \in positions : media[p].ThumbYOffset = y }

\* C36: when no thumbnail of a regenerated batch is wider or higher than
\* maxThumbSize and the batch has at most maxPerRow * maxRows records, a row
\* holds at most maxPerRow tiles, there are at most maxRows rows, the canvas
\* is at most 3240 wide and 1620 high, and every offset is at least 0 and
\* below these bounds.
C36_SizeBounds ==
    lastRun.ok =>
        \A j \in 1..Len(lastRun.plan) :
            LET m == lastRun.final
                batch == PlannedPositions(lastRun, lastRun.plan[j])
                bounded ==
                    /\ Cardinality(batch) <= maxPerRow * maxRows
                    /\ \A p \in batch : /\ m[p].ThumbWidth <= maxThumbSize
                                         /\ m[p].ThumbHeight <= maxThumbSize
            IN (~lastRun.plan[j].skipped /\ bounded) =>
                   /\ \A p \in batch :
                          Cardinality(InRow(m, batch, m[p].ThumbYOffset)) <= maxPerRow
                   /\ Cardinality({ m[p].ThumbYOffset : p \in batch }) <= maxRows
                   /\ \A p \in batch :
                          /\ m[p].ThumbTotalWidth <= 3240
                          /\ m[p].ThumbTotalHeight <= 1620
                          /\ 0 <= m[p].ThumbXOffset /\ m[p].ThumbXOffset < 3240
                          /\ 0 <= m[p].ThumbYOffset /\ m[p].ThumbYOffset < 1620

\* A batch of fifty square thumbnails of the full size has been laid out:
\* five rows of ten tiles on a canvas of 3240 by 1620.
C36_Witness ==
    /\ lastRun.ok
    /\ \E j \in 1..Len(lastRun.plan) :
           LET m == lastRun.final
               batch == PlannedPositions(lastRun, lastRun.plan[j])
           IN /\ ~lastRun.plan[j].skipped
              /\ Cardinality(batch) = maxPerRow * maxRows
              /\ \A p \in batch : /\ m[p].ThumbTotalWidth = 3240
                                   /\ m[p].ThumbTotalHeight = 1620
              /\ \E p \in batch : /\ m[p].ThumbXOffset = 3240 - maxThumbSize
                                   /\ m[p].ThumbYOffset = 1620 - maxThumbSize
====
